---- MODULE Spec2Model ----
(***************************************************************************)
(* A model of aai-config-assist: the geometry kernel                       *)
(* (src/utils/geometry_helper.py), the rectangular cuboid                   *)
(* (src/structures/rectangular_cuboid.py), the separating-axis-theorem      *)
(* engine (src/core/separating_axis_theorem.py), the pairwise scanner       *)
(* (src/core/checker.py) and the editor callbacks                           *)
(* (src/app/callback_registrar.py).                                         *)
(*                                                                          *)
(* Numbers.  The code computes with IEEE doubles.  The model computes       *)
(* exactly in the ring Z[sqrt 2][1/2]: a number is a triple <<a, b, k>>     *)
(* that stands for (a + b*sqrt(2)) / 2^k, kept in lowest terms.  Every      *)
(* value the code derives from integer inputs and rotations that are        *)
(* multiples of 45 degrees lies in this ring, so sums, products, halves,    *)
(* sines and cosines are exact.  The rounding error of the double           *)
(* computation (about 1e-16) is far below the 1e-8 tolerance of np.isclose  *)
(* and every non-zero value of the model is far above it, so                *)
(* np.isclose(v, 0) coincides with v = 0 on the values of the model.        *)
(***************************************************************************)
EXTENDS Integers, Sequences, FiniteSets, TLC

\* ------------------------------------------------------------------------
\* Bounds of the model
\* ------------------------------------------------------------------------
MaxCoord == 2
MaxLength == 3
MaxWidth == 2
MaxHeight == 2
MaxSeg == 5
MaxItems == 3
MaxSlider == 1
MaxSteps == 3
MaxCalls == 2
MaxGroupItems == 2
MaxGroups == 2
MaxArenas == 2

\* ------------------------------------------------------------------------
\* Exact arithmetic on (a + b*sqrt 2) / 2^k
\* ------------------------------------------------------------------------
RECURSIVE Pow2(_)
Pow2(k) == IF k = 0 THEN 1 ELSE 2 * Pow2(k - 1)

RECURSIVE Norm(_)
Norm(q) ==
    IF q[1] = 0 /\ q[2] = 0 THEN <<0, 0, 0>>
    ELSE IF q[3] > 0 /\ q[1] % 2 = 0 /\ q[2] % 2 = 0
         THEN Norm(<<q[1] \div 2, q[2] \div 2, q[3] - 1>>)
         ELSE q

Num(n) == <<n, 0, 0>>

Zero == Num(0)

MaxOf(i, j) == IF i >= j THEN i ELSE j

Add(p, q) ==
    LET K == MaxOf(p[3], q[3])
    IN  Norm(<<p[1] * Pow2(K - p[3]) + q[1] * Pow2(K - q[3]),
               p[2] * Pow2(K - p[3]) + q[2] * Pow2(K - q[3]),
               K>>)

Neg(q) == <<0 - q[1], 0 - q[2], q[3]>>

Sub(p, q) == Add(p, Neg(q))

Mul(p, q) ==
    Norm(<<p[1] * q[1] + 2 * p[2] * q[2],
           p[1] * q[2] + p[2] * q[1],
           p[3] + q[3]>>)

Half(q) == Norm(<<q[1], q[2], q[3] + 1>>)

\* The sign of a + b*sqrt 2: it is decided by comparing a^2 with 2*b^2 when
\* a and b have opposite signs.
Sign(q) ==
    LET a == q[1]
        b == q[2]
    IN  IF a = 0 /\ b = 0 THEN 0
        ELSE IF a >= 0 /\ b >= 0 THEN 1
        ELSE IF a <= 0 /\ b <= 0 THEN 0 - 1
        ELSE IF a > 0 THEN (IF a * a > 2 * b * b THEN 1 ELSE 0 - 1)
        ELSE (IF 2 * b * b > a * a THEN 1 ELSE 0 - 1)

Lt(p, q) == Sign(Sub(p, q)) < 0

Le(p, q) == Sign(Sub(p, q)) <= 0

\* Python's min() and max() over a non-empty collection of numbers.
py_min(S) == CHOOSE x \in S : \A y \in S : Le(x, y)

py_max(S) == CHOOSE x \in S : \A y \in S : Le(y, x)

\* np.isclose(v, 0) with the default tolerances (see the note on numbers).
np_isclose_zero(q) == Sign(q) = 0

\* np.cos(np.deg2rad(d)) and np.sin(np.deg2rad(d)) for d a multiple of 45.
SqrtHalf == <<0, 1, 1>>

cos_deg(d) ==
    LET o == (d % 360) \div 45
    IN  CASE o = 0 -> Num(1)
          [] o = 1 -> SqrtHalf
          [] o = 2 -> Zero
          [] o = 3 -> Neg(SqrtHalf)
          [] o = 4 -> Num(0 - 1)
          [] o = 5 -> Neg(SqrtHalf)
          [] o = 6 -> Zero
          [] o = 7 -> SqrtHalf

sin_deg(d) == cos_deg(d - 90)

\* ------------------------------------------------------------------------
\* Geometry kernel (src/utils/geometry_helper.py).  A point is <<x, y>>.
\* ------------------------------------------------------------------------
PAdd(p, q) == <<Add(p[1], q[1]), Add(p[2], q[2])>>

PSub(p, q) == <<Sub(p[1], q[1]), Sub(p[2], q[2])>>

\* Variant: the vertices are listed from the bottom-left one, anticlockwise.
calculate_vertices_from_bottom_left(center, width, height) ==
    LET half_width == Half(width)
        half_height == Half(height)
        a == PAdd(center, <<Neg(half_width), half_height>>)
        b == PAdd(center, <<half_width, half_height>>)
        c == PAdd(center, <<half_width, Neg(half_height)>>)
        d == PAdd(center, <<Neg(half_width), Neg(half_height)>>)
    IN  <<d, c, b, a>>

\* Variant: the full width and height are laid off from the centre.
calculate_vertices_with_full_extents(center, width, height) ==
    LET a == PAdd(center, <<Neg(width), height>>)
        b == PAdd(center, <<width, height>>)
        c == PAdd(center, <<width, Neg(height)>>)
        d == PAdd(center, <<Neg(width), Neg(height)>>)
    IN  <<a, b, c, d>>

calculate_vertices_of_axis_aligned_rectangle(center, width, height) ==
    LET half_width == Half(width)
        half_height == Half(height)
        a == PAdd(center, <<Neg(half_width), half_height>>)
        b == PAdd(center, <<half_width, half_height>>)
        c == PAdd(center, <<half_width, Neg(half_height)>>)
        d == PAdd(center, <<Neg(half_width), Neg(half_height)>>)
    IN  <<a, b, c, d>>

\* Variant: the rotated points are not translated back by the centre.
calculate_rotated_2d_points_about_origin(points, angle_deg, center_of_rotation) ==
    LET co == cos_deg(angle_deg)
        si == sin_deg(angle_deg)
        rot(p) == <<Add(Mul(co, p[1]), Mul(si, p[2])),
                    Add(Mul(Neg(si), p[1]), Mul(co, p[2]))>>
    IN  [i \in DOMAIN points |-> rot(PSub(points[i], center_of_rotation))]

\* Variant: the rotation matrix of the anticlockwise rotation.
calculate_anticlockwise_rotated_2d_points(points, angle_deg, center_of_rotation) ==
    LET co == cos_deg(angle_deg)
        si == sin_deg(angle_deg)
        rot(p) == <<Add(Mul(co, p[1]), Mul(Neg(si), p[2])),
                    Add(Mul(si, p[1]), Mul(co, p[2]))>>
    IN  [i \in DOMAIN points |->
            PAdd(rot(PSub(points[i], center_of_rotation)), center_of_rotation)]

\* The value returned by calculate_clockwise_rotated_2d_points: translate by
\* -center_of_rotation, multiply by [[cos, sin], [-sin, cos]], translate back.
calculate_clockwise_rotated_2d_points(points, angle_deg, center_of_rotation) ==
    LET co == cos_deg(angle_deg)
        si == sin_deg(angle_deg)
        rot(p) == <<Add(Mul(co, p[1]), Mul(si, p[2])),
                    Add(Mul(Neg(si), p[1]), Mul(co, p[2]))>>
    IN  [i \in DOMAIN points |->
            PAdd(rot(PSub(points[i], center_of_rotation)), center_of_rotation)]

\* The contents of the array passed as points once the function has run:
\* 'points -= center_of_rotation' subtracts in place, in the caller's array,
\* and nothing writes to it afterwards (the product and the translation back
\* are made in the new array rotated_points).
points_after_clockwise_rotation(points, center_of_rotation) ==
    [i \in DOMAIN points |-> PSub(points[i], center_of_rotation)]

calculate_vertices_of_rotated_rectangle(center, width, height, angle_deg) ==
    LET vertices == calculate_vertices_of_axis_aligned_rectangle(center, width, height)
    IN  calculate_clockwise_rotated_2d_points(vertices, angle_deg, center)

\* The notch ratios of the L-, U- and J-blocks: 0.25 and 0.75.
SMALL_RATIO == <<1, 0, 2>>

LARGE_RATIO == <<3, 0, 2>>

\* Variant: the notch of the L-block starts halfway down the right side.
calculate_vertices_of_axis_aligned_l_block_with_half_notch(center, width, height) ==
    LET r == calculate_vertices_of_axis_aligned_rectangle(center, width, height)
        c1 == PAdd(r[2], <<Zero, Neg(Half(height))>>)
        c2 == PAdd(c1, <<Neg(Mul(LARGE_RATIO, width)), Zero>>)
        c3 == PAdd(c2, <<Zero, Neg(Sub(c2[2], r[4][2]))>>)
    IN  <<r[1], r[2], c1, c2, c3, r[4]>>

calculate_vertices_of_axis_aligned_l_block(center, width, height) ==
    LET r == calculate_vertices_of_axis_aligned_rectangle(center, width, height)
        a == r[1]
        b == r[2]
        d == r[4]
        c1 == PAdd(b, <<Zero, Neg(Mul(SMALL_RATIO, height))>>)
        c2 == PAdd(c1, <<Neg(Mul(LARGE_RATIO, width)), Zero>>)
        c3 == PAdd(c2, <<Zero, Neg(Sub(c2[2], d[2]))>>)
    IN  <<a, b, c1, c2, c3, d>>

calculate_vertices_of_axis_aligned_u_block(center, width, height) ==
    LET r == calculate_vertices_of_axis_aligned_rectangle(center, width, height)
        a == r[1]
        b == r[2]
        c == r[3]
        d == r[4]
        c1 == c
        c2 == PAdd(c1, <<Neg(Mul(SMALL_RATIO, width)), Zero>>)
        c3 == PAdd(c2, <<Zero, Mul(LARGE_RATIO, height)>>)
        c4 == PAdd(c3, <<Neg(Half(width)), Zero>>)
        c5 == PAdd(c4, <<Zero, Neg(Mul(LARGE_RATIO, height))>>)
    IN  <<a, b, c1, c2, c3, c4, c5, d>>

calculate_vertices_of_axis_aligned_j_block(center, width, height) ==
    LET r == calculate_vertices_of_axis_aligned_rectangle(center, width, height)
        a == r[1]
        c == r[3]
        d == r[4]
        b1 == PAdd(a, <<Mul(SMALL_RATIO, width), Zero>>)
        b2 == PAdd(b1, <<Zero, Neg(Mul(LARGE_RATIO, height))>>)
        b3 == PAdd(b2, <<Mul(LARGE_RATIO, width), Zero>>)
    IN  <<a, b1, b2, b3, c, d>>

\* calculate_vertices_of_rotated with get_vertices one of the block functions.
calculate_vertices_of_rotated_l_block(center, width, height, angle_deg) ==
    calculate_clockwise_rotated_2d_points(
        calculate_vertices_of_axis_aligned_l_block(center, width, height), angle_deg, center)

calculate_vertices_of_rotated_u_block(center, width, height, angle_deg) ==
    calculate_clockwise_rotated_2d_points(
        calculate_vertices_of_axis_aligned_u_block(center, width, height), angle_deg, center)

calculate_vertices_of_rotated_j_block(center, width, height, angle_deg) ==
    calculate_clockwise_rotated_2d_points(
        calculate_vertices_of_axis_aligned_j_block(center, width, height), angle_deg, center)

\* Variant: the difference is returned without the clamp max(0, .).
determine_overlap_without_clamp(segment1, segment2) ==
    LET start1 == py_min({segment1[1], segment1[2]})
        stop1 == py_max({segment1[1], segment1[2]})
        start2 == py_min({segment2[1], segment2[2]})
        stop2 == py_max({segment2[1], segment2[2]})
    IN  Sub(py_min({stop2, stop1}), py_max({start2, start1}))

\* Variant: the stop of the first segment is taken instead of the smaller stop.
determine_overlap_up_to_first_stop(segment1, segment2) ==
    LET start1 == py_min({segment1[1], segment1[2]})
        stop1 == py_max({segment1[1], segment1[2]})
        start2 == py_min({segment2[1], segment2[2]})
    IN  py_max({Zero, Sub(stop1, py_max({start2, start1}))})

determine_overlap_between_aligned_segments(segment1, segment2) ==
    LET start1 == py_min({segment1[1], segment1[2]})
        stop1 == py_max({segment1[1], segment1[2]})
        start2 == py_min({segment2[1], segment2[2]})
        stop2 == py_max({segment2[1], segment2[2]})
    IN  py_max({Zero, Sub(py_min({stop2, stop1}), py_max({start2, start1}))})

get_projected_distance_of_2d_points_onto_axis(points, axis) ==
    [i \in DOMAIN points |->
        Add(Mul(points[i][1], axis[1]), Mul(points[i][2], axis[2]))]

get_min_max_projections(points, axis) ==
    LET projections == get_projected_distance_of_2d_points_onto_axis(points, axis)
        vals == {projections[i] : i \in DOMAIN projections}
    IN  <<py_min(vals), py_max(vals)>>

\* ------------------------------------------------------------------------
\* RectangularCuboid (src/structures/rectangular_cuboid.py).  The centre is
\* <<x, z, y>>: X_INDEX = 1, Z_INDEX = 2, Y_INDEX = 3 (1-based here).
\* ------------------------------------------------------------------------
RectangularCuboid(lower_base_centroid, dimensions, rotation, name, colour) ==
    [center |-> lower_base_centroid,
     length |-> dimensions[1],
     width |-> dimensions[2],
     height |-> dimensions[3],
     deg_rotation |-> rotation,
     name |-> name,
     colour |-> colour,
     lower_base_vertices |->
        calculate_vertices_of_rotated_rectangle(
            <<lower_base_centroid[1], lower_base_centroid[2]>>,
            dimensions[1], dimensions[2], rotation)]

\* Variant: the vertices are not computed again.
resize_keeping_lower_base_vertices(c, resized_length, resized_width, resized_height) ==
    LET length == IF resized_length = <<>> THEN c.length ELSE resized_length[1]
        width == IF resized_width = <<>> THEN c.width ELSE resized_width[1]
        height == IF resized_height = <<>> THEN c.height ELSE resized_height[1]
    IN  [c EXCEPT !.length = length, !.width = width, !.height = height]

\* RectangularCuboid.resize.  An optional argument is <<>> for None and <<v>>
\* for the value v.
resize(c, resized_length, resized_width, resized_height) ==
    LET length == IF resized_length = <<>> THEN c.length ELSE resized_length[1]
        width == IF resized_width = <<>> THEN c.width ELSE resized_width[1]
        height == IF resized_height = <<>> THEN c.height ELSE resized_height[1]
    IN  [c EXCEPT !.length = length,
                  !.width = width,
                  !.height = height,
                  !.lower_base_vertices =
                      calculate_vertices_of_rotated_rectangle(
                          <<c.center[1], c.center[2]>>, length, width, c.deg_rotation)]

\* ------------------------------------------------------------------------
\* Separating axis theorem (src/core/separating_axis_theorem.py)
\* ------------------------------------------------------------------------
\* Variant: the sign of the angle is not flipped.
get_potential_separation_axes_anticlockwise(deg_angle) ==
    LET d2 == (deg_angle + 90) % 360
    IN  <<(<<cos_deg(deg_angle), sin_deg(deg_angle)>>), (<<cos_deg(d2), sin_deg(d2)>>)>>

get_potential_separation_axes(deg_angle) ==
    LET d == 0 - deg_angle
        d2 == (d + 90) % 360
    IN  <<(<<cos_deg(d), sin_deg(d)>>), (<<cos_deg(d2), sin_deg(d2)>>)>>

\* Variant: the depth segments are read at the z index of the centre.
depth_overlap_at_z_index(rec_cuboid1, rec_cuboid2) ==
    determine_overlap_between_aligned_segments(
        <<rec_cuboid1.center[2], Add(rec_cuboid1.center[2], rec_cuboid1.height)>>,
        <<rec_cuboid2.center[2], Add(rec_cuboid2.center[2], rec_cuboid2.height)>>)

depth_overlap(rec_cuboid1, rec_cuboid2) ==
    determine_overlap_between_aligned_segments(
        <<rec_cuboid1.center[3], Add(rec_cuboid1.center[3], rec_cuboid1.height)>>,
        <<rec_cuboid2.center[3], Add(rec_cuboid2.center[3], rec_cuboid2.height)>>)

\* Variant: only the first cuboid contributes its axes.
possible_separation_axes_of_first(rec_cuboid1, rec_cuboid2) ==
    {get_potential_separation_axes(rec_cuboid1.deg_rotation)[1],
     get_potential_separation_axes(rec_cuboid1.deg_rotation)[2]}

possible_separation_axes(rec_cuboid1, rec_cuboid2) ==
    {get_potential_separation_axes(rec_cuboid1.deg_rotation)[1],
     get_potential_separation_axes(rec_cuboid1.deg_rotation)[2],
     get_potential_separation_axes(rec_cuboid2.deg_rotation)[1],
     get_potential_separation_axes(rec_cuboid2.deg_rotation)[2]}

\* The dictionary 'overlaps' at the end of the main loop.
axis_overlaps(rec_cuboid1, rec_cuboid2) ==
    [axis \in possible_separation_axes(rec_cuboid1, rec_cuboid2) |->
        determine_overlap_between_aligned_segments(
            get_min_max_projections(rec_cuboid1.lower_base_vertices, axis),
            get_min_max_projections(rec_cuboid2.lower_base_vertices, axis))]

\* The flag do_overlap at the end of the main loop, from the dictionary.
do_overlap(overlaps) ==
    \A axis \in DOMAIN overlaps : ~np_isclose_zero(overlaps[axis])

\* Variant: the axis of the largest overlap is taken.
apply_separating_axis_theorem_largest(rec_cuboid1, rec_cuboid2) ==
    IF np_isclose_zero(depth_overlap(rec_cuboid1, rec_cuboid2))
    THEN <<Zero, Zero>>
    ELSE LET overlaps == axis_overlaps(rec_cuboid1, rec_cuboid2)
             distance == py_max({overlaps[k] : k \in DOMAIN overlaps})
             vector == CHOOSE key \in DOMAIN overlaps : overlaps[key] = distance
         IN  IF do_overlap(overlaps)
             THEN <<Mul(distance, vector[1]), Mul(distance, vector[2])>>
             ELSE <<Zero, Zero>>

\* Variant: no early return on a zero depth overlap.
apply_separating_axis_theorem_no_depth_check(rec_cuboid1, rec_cuboid2) ==
    LET overlaps == axis_overlaps(rec_cuboid1, rec_cuboid2)
        distance == py_min({overlaps[k] : k \in DOMAIN overlaps})
        vector == CHOOSE key \in DOMAIN overlaps : overlaps[key] = distance
    IN  IF do_overlap(overlaps)
        THEN <<Mul(distance, vector[1]), Mul(distance, vector[2])>>
        ELSE <<Zero, Zero>>

\* The returned mtv.  The axis is the first key, in the iteration order of a
\* Python set of float tuples, whose overlap is the minimum: a fixed but
\* unspecified choice among the axes that attain it.
apply_separating_axis_theorem(rec_cuboid1, rec_cuboid2) ==
    IF np_isclose_zero(depth_overlap(rec_cuboid1, rec_cuboid2))
    THEN <<Zero, Zero>>
    ELSE LET overlaps == axis_overlaps(rec_cuboid1, rec_cuboid2)
             min_overlap_distance == py_min({overlaps[k] : k \in DOMAIN overlaps})
             min_overlap_vector ==
                 CHOOSE key \in DOMAIN overlaps : overlaps[key] = min_overlap_distance
         IN  IF do_overlap(overlaps)
             THEN <<Mul(min_overlap_distance, min_overlap_vector[1]),
                    Mul(min_overlap_distance, min_overlap_vector[2])>>
             ELSE <<Zero, Zero>>

\* ------------------------------------------------------------------------
\* The earlier module src/separating_axis_theorem.py: the same engine on
\* Rectangle objects, whose geometry functions (src/geometry_helper.py) are
\* line for line those of src/utils/geometry_helper.py.  The name and the
\* colour of a rectangle play no part in the result and are left out.
\* ------------------------------------------------------------------------
Rectangle(center, width, height, deg_rotation, depth, depth_start) ==
    [center |-> center,
     width |-> width,
     height |-> height,
     depth |-> depth,
     depth_start |-> depth_start,
     deg_rotation |-> deg_rotation,
     vertices |-> calculate_vertices_of_rotated_rectangle(center, width, height,
                                                         deg_rotation)]

\* Rectangle(center, width, height, deg_rotation): depth and depth_start take
\* their defaults, 0 and 0.
RectangleWithDefaults(center, width, height, deg_rotation) ==
    Rectangle(center, width, height, deg_rotation, Zero, Zero)

legacy_axis_overlaps(rectangle1, rectangle2) ==
    [axis \in possible_separation_axes(rectangle1, rectangle2) |->
        determine_overlap_between_aligned_segments(
            get_min_max_projections(rectangle1.vertices, axis),
            get_min_max_projections(rectangle2.vertices, axis))]

legacy_depth_overlap(rectangle1, rectangle2) ==
    determine_overlap_between_aligned_segments(
        <<rectangle1.depth_start, Add(rectangle1.depth_start, rectangle1.depth)>>,
        <<rectangle2.depth_start, Add(rectangle2.depth_start, rectangle2.depth)>>)

legacy_apply_separating_axis_theorem(rectangle1, rectangle2) ==
    IF np_isclose_zero(legacy_depth_overlap(rectangle1, rectangle2))
        THEN <<Zero, Zero>>
        ELSE LET overlaps == legacy_axis_overlaps(rectangle1, rectangle2)
                 min_overlap_distance == py_min({overlaps[k] : k \in DOMAIN overlaps})
                 min_overlap_vector ==
                     CHOOSE key \in DOMAIN overlaps : overlaps[key] = min_overlap_distance
             IN  IF do_overlap(overlaps)
                 THEN <<Mul(min_overlap_distance, min_overlap_vector[1]),
                        Mul(min_overlap_distance, min_overlap_vector[2])>>
                 ELSE <<Zero, Zero>>

\* np.all(np.isclose(mtv, np.array([0, 0])))
mtv_is_zero(mtv) == np_isclose_zero(mtv[1]) /\ np_isclose_zero(mtv[2])

\* ------------------------------------------------------------------------
\* Pairwise scanner (src/core/checker.py)
\* ------------------------------------------------------------------------
\* The body of the two nested loops, from the pair (i, j) on, with the set
\* items_with_overlap accumulated so far (indices are 1-based here).
RECURSIVE scan_pairs(_, _, _, _)
scan_pairs(cuboids, i, j, items_with_overlap) ==
    LET n == Len(cuboids)
    IN  IF i > n THEN items_with_overlap
        ELSE IF j > n THEN scan_pairs(cuboids, i + 1, i + 2, items_with_overlap)
        ELSE LET item1 == cuboids[i]
                 item2 == cuboids[j]
                 mtv == apply_separating_axis_theorem(item1, item2)
             IN  IF ~mtv_is_zero(mtv)
                 THEN scan_pairs(cuboids, i, j + 1,
                                 items_with_overlap \cup {item1.name, item2.name})
                 ELSE scan_pairs(cuboids, i, j + 1, items_with_overlap)

\* Variant: only the first item of an overlapping pair is recorded.
RECURSIVE scan_pairs_first_only(_, _, _, _)
scan_pairs_first_only(cuboids, i, j, items_with_overlap) ==
    LET n == Len(cuboids)
    IN  IF i > n THEN items_with_overlap
        ELSE IF j > n THEN scan_pairs_first_only(cuboids, i + 1, i + 2, items_with_overlap)
        ELSE LET item1 == cuboids[i]
                 item2 == cuboids[j]
                 mtv == apply_separating_axis_theorem(item1, item2)
             IN  IF ~mtv_is_zero(mtv)
                 THEN scan_pairs_first_only(cuboids, i, j + 1,
                                            items_with_overlap \cup {item1.name})
                 ELSE scan_pairs_first_only(cuboids, i, j + 1, items_with_overlap)

check_overlaps_first_only(cuboids) == scan_pairs_first_only(cuboids, 1, 2, {})

check_overlaps_between_cuboids(cuboids) == scan_pairs(cuboids, 1, 2, {})

\* ------------------------------------------------------------------------
\* Visualiser (src/core/visualiser.py): the contour of an item, as the list
\* of the points (x_path[i], y_path[i]).
\* ------------------------------------------------------------------------
NON_RECTANGULAR_ITEMS == {"LBlock", "UBlock", "JBlock"}

\* np.concatenate of the vertices and the first one again.
closed_path(vertices) == Append(vertices, vertices[1])

get_rectangular_item_path(cuboid) == closed_path(cuboid.lower_base_vertices)

\* _get_non_rectangular_path: calculate_vertices is called with
\* width=cuboid.width and height=cuboid.height.
get_l_block_path(cuboid) ==
    closed_path(calculate_vertices_of_rotated_l_block(
                    <<cuboid.center[1], cuboid.center[2]>>, cuboid.width, cuboid.height,
                    cuboid.deg_rotation))

get_u_block_path(cuboid) ==
    closed_path(calculate_vertices_of_rotated_u_block(
                    <<cuboid.center[1], cuboid.center[2]>>, cuboid.width, cuboid.height,
                    cuboid.deg_rotation))

get_j_block_path(cuboid) ==
    closed_path(calculate_vertices_of_rotated_j_block(
                    <<cuboid.center[1], cuboid.center[2]>>, cuboid.width, cuboid.height,
                    cuboid.deg_rotation))

get_cuboid_x_and_y_contour_paths(cuboid) ==
    LET item_type == cuboid.name.type
    IN  IF item_type \in NON_RECTANGULAR_ITEMS
        THEN CASE item_type = "LBlock" -> get_l_block_path(cuboid)
               [] item_type = "UBlock" -> get_u_block_path(cuboid)
               [] item_type = "JBlock" -> get_j_block_path(cuboid)
        ELSE get_rectangular_item_path(cuboid)

\* ------------------------------------------------------------------------
\* Preprocessor (src/processing/preprocessor.py) and Dumper
\* (src/processing/dumper.py).  The loaded YAML data is a list of arenas in
\* the order of their keys; an arena is [passMark, timeLimit, items], items a
\* list of item types [name, positions, rotations, sizes, colors], a
\* position or size a mapping [x, y, z] and a colour a mapping [r, g, b].
\* ------------------------------------------------------------------------
Arena(passMark, timeLimit, physical_items, overlapping_items) ==
    [passMark |-> passMark,
     timeLimit |-> timeLimit,
     physical_items |-> physical_items,
     overlapping_items |-> overlapping_items]

\* f"{type_name} {item_ix}": the type is the text before the first blank.
set_item_name_from(type_name, item_ix) == [type |-> type_name, auto |-> FALSE, ix |-> item_ix]

RECURSIVE py_concat(_)
\* The lists of a list, added up with +=.
py_concat(lists) ==
    IF lists = <<>> THEN <<>> ELSE Head(lists) \o py_concat(Tail(lists))

create_rectangular_cuboid_list(raw_physical_items) ==
    py_concat(
        [i \in 1..Len(raw_physical_items) |->
            LET items == raw_physical_items[i]
                num_items == Len(items.positions)
            IN  [k \in 1..num_items |->
                    LET position == items.positions[k]
                        rotation == items.rotations[k]
                        size == items.sizes[k]
                        colour == items.colors[k]
                        xzy_lower_base_centroid == <<position.x, position.z, position.y>>
                        xzy_dimensions == <<size.x, size.z, size.y>>
                    IN  RectangularCuboid(xzy_lower_base_centroid, xzy_dimensions, rotation,
                                          set_item_name_from(items.name, k - 1), colour)]])

create_arenas_list(raw_arenas) ==
    [arena_ix \in 1..Len(raw_arenas) |->
        Arena(raw_arenas[arena_ix].passMark, raw_arenas[arena_ix].timeLimit,
              create_rectangular_cuboid_list(raw_arenas[arena_ix].items), <<>>)]

\* f"{a}": the number as text.  A component of the float array center is
\* printed with a decimal point, a value kept as the YAML gave it (here an
\* integer) without; read back, the text gives the number again.
py_format(a, dtype) == [number |-> a, dtype |-> dtype]

get_vector3_representation(a, b, c) == [tag |-> "!Vector3", x |-> a, y |-> b, z |-> c]

get_rgb_representation(a, b, c) == [tag |-> "!RGB", r |-> a, g |-> b, b |-> c]

\* item.name.split(" ")[0]
item_type_of(item) == item.name.type

RECURSIVE types_in_order_of_appearance(_, _)
\* The keys of the result dict, in insertion order.
types_in_order_of_appearance(items, seen) ==
    IF items = <<>> THEN <<>>
    ELSE IF item_type_of(Head(items)) \in seen
         THEN types_in_order_of_appearance(Tail(items), seen)
         ELSE <<item_type_of(Head(items))>>
                  \o types_in_order_of_appearance(Tail(items),
                                                  seen \cup {item_type_of(Head(items))})

\* Variant: the sizes are written in the order length, width, height.
rearrange_items_per_type_with_sizes_in_xzy_order(items) ==
    LET types == types_in_order_of_appearance(items, {})
    IN  [n \in 1..Len(types) |->
            LET of_type == SelectSeq(items, LAMBDA item : item_type_of(item) = types[n])
            IN  [name |-> types[n],
                 positions |->
                    [k \in 1..Len(of_type) |->
                        get_vector3_representation(
                            py_format(of_type[k].center[1], "float64"),
                            py_format(of_type[k].center[3], "float64"),
                            py_format(of_type[k].center[2], "float64"))],
                 rotations |->
                    [k \in 1..Len(of_type) |-> py_format(of_type[k].deg_rotation, "int")],
                 sizes |->
                    [k \in 1..Len(of_type) |->
                        get_vector3_representation(
                            py_format(of_type[k].length, "int"),
                            py_format(of_type[k].width, "int"),
                            py_format(of_type[k].height, "int"))],
                 colors |->
                    [k \in 1..Len(of_type) |->
                        get_rgb_representation(
                            py_format(of_type[k].colour.r, "int"),
                            py_format(of_type[k].colour.g, "int"),
                            py_format(of_type[k].colour.b, "int"))]]]

\* Dumper._rearrange_items_per_type on a list with at least one item (items[0]
\* raises IndexError on an empty one): center_x, center_y and center_z are
\* center[0], center[2] and center[1].
rearrange_items_per_type(items) ==
    LET types == types_in_order_of_appearance(items, {})
    IN  [n \in 1..Len(types) |->
            LET of_type == SelectSeq(items, LAMBDA item : item_type_of(item) = types[n])
            IN  [name |-> types[n],
                 positions |->
                    [k \in 1..Len(of_type) |->
                        get_vector3_representation(
                            py_format(of_type[k].center[1], "float64"),
                            py_format(of_type[k].center[3], "float64"),
                            py_format(of_type[k].center[2], "float64"))],
                 rotations |->
                    [k \in 1..Len(of_type) |-> py_format(of_type[k].deg_rotation, "int")],
                 sizes |->
                    [k \in 1..Len(of_type) |->
                        get_vector3_representation(
                            py_format(of_type[k].length, "int"),
                            py_format(of_type[k].height, "int"),
                            py_format(of_type[k].width, "int"))],
                 colors |->
                    [k \in 1..Len(of_type) |->
                        get_rgb_representation(
                            py_format(of_type[k].colour.r, "int"),
                            py_format(of_type[k].colour.g, "int"),
                            py_format(of_type[k].colour.b, "int"))]]]

get_heading_str(level) == <<[level |-> level, text |-> "!ArenaConfig"],
                            [level |-> level, text |-> "arenas:"]>>

\* The section of the arena at index ix (0-based): its first line, its
\* settings and its items.
get_arena_config_str(self_arenas, ix, level) ==
    [level |-> level,
     ix |-> ix,
     tag |-> "!Arena",
     passMark |-> self_arenas[ix + 1].passMark,
     timeLimit |-> self_arenas[ix + 1].timeLimit,
     items |-> rearrange_items_per_type(self_arenas[ix + 1].physical_items)]

\* Dumper._get_complete_config_str: the return statement stands inside the
\* loop over the arenas, so the function returns at the end of the first
\* pass; with no arena the loop body never runs and the function returns
\* None.
get_complete_config_str(self_arenas, level) ==
    IF self_arenas = <<>>
    THEN [returned |-> "None", heading |-> <<>>, sections |-> <<>>]
    ELSE [returned |-> "str",
          heading |-> get_heading_str(level),
          sections |-> <<get_arena_config_str(self_arenas, 0, level + 1)>>]

\* ------------------------------------------------------------------------
\* The axis-aligned check of ConfigChecker (src/config_checker.py), on the
\* position [x, y, z] and size [x, y, z] of the YAML data.
\* ------------------------------------------------------------------------
\* Variant: the vertical bounds are centred on y like the horizontal ones.
calculate_item_bounds_with_centred_y(item_position, item_size) ==
    LET x_bounds == <<Sub(item_position.x, Half(item_size.x)),
                      Add(item_position.x, Half(item_size.x))>>
        y_bounds == <<Sub(item_position.y, Half(item_size.y)),
                      Add(item_position.y, Half(item_size.y))>>
        z_bounds == <<Sub(item_position.z, Half(item_size.z)),
                      Add(item_position.z, Half(item_size.z))>>
    IN  <<x_bounds, y_bounds, z_bounds>>

calculate_item_bounds(item_position, item_size) ==
    LET x_bounds == <<Sub(item_position.x, Half(item_size.x)),
                      Add(item_position.x, Half(item_size.x))>>
        y_bounds == <<item_position.y, Add(item_position.y, item_size.y)>>
        z_bounds == <<Sub(item_position.z, Half(item_size.z)),
                      Add(item_position.z, Half(item_size.z))>>
    IN  <<x_bounds, y_bounds, z_bounds>>

\* bool(x_overlap and y_overlap and z_overlap): true when none is 0.
check_overlap_from_item_boundaries(b1, b2) ==
    LET x_overlap == py_max({Zero, Sub(py_min({b1[1][2], b2[1][2]}),
                                       py_max({b1[1][1], b2[1][1]}))})
        y_overlap == py_max({Zero, Sub(py_min({b1[2][2], b2[2][2]}),
                                       py_max({b1[2][1], b2[2][1]}))})
        z_overlap == py_max({Zero, Sub(py_min({b1[3][2], b2[3][2]}),
                                       py_max({b1[3][1], b2[3][1]}))})
        items_overlap == x_overlap # Zero /\ y_overlap # Zero /\ z_overlap # Zero
    IN  <<items_overlap, x_overlap, y_overlap, z_overlap>>

\* The YAML position and size of a cuboid: the Preprocessor's mapping, read
\* backwards.
position_of(cuboid) == [x |-> cuboid.center[1], y |-> cuboid.center[3], z |-> cuboid.center[2]]

size_of(cuboid) == [x |-> cuboid.length, y |-> cuboid.height, z |-> cuboid.width]

\* ------------------------------------------------------------------------
\* State
\* ------------------------------------------------------------------------
VARIABLES
    pc,                   \* which call is pending or has returned
    segment1, segment2,   \* arguments of determine_overlap_between_aligned_segments
    overlap,              \* its return value
    rec_cuboid1, rec_cuboid2,  \* arguments of apply_separating_axis_theorem
    mtv,                  \* its return value
    cuboids,              \* argument of Checker.check_overlaps_between_cuboids
    items_with_overlap,   \* its return value
    mtv_again,            \* return value of a second call on the same cuboids
    rectangle1, rectangle2,  \* arguments of the apply_separating_axis_theorem of
                          \* src/separating_axis_theorem.py (its result is mtv)
    points,               \* calculate_clockwise_rotated_2d_points: the caller's array
    angle_deg,            \* its angle
    center_of_rotation,   \* the caller's pivot array: <<>> when the argument is omitted
    default_center_of_rotation,  \* the array bound to the parameter's default
    rotated_points,       \* its return value
    calls,                \* number of calls made on the caller's arrays
    rect_center, rect_width, rect_height, rect_angle,  \* arguments of the vertex functions
    vertices,             \* their return value
    unrotated_vertices,   \* the returned vertices rotated back by -rect_angle
    heap,                 \* the RectangularCuboid objects of the editor, by identity
    next_id,              \* identity of the next object constructed
    physical_items,       \* current arena: the list of (references to) its items
    overlapping_items,    \* current arena: names of the overlapping items
    curr_item_to_move_ix, \* app_manager.curr_item_to_move_ix: <<>> before it is set
    sliders,              \* values of the x, y, z and xz-rotation sliders
    spawn_clicks,         \* n_clicks of the spawn button
    last_op,              \* the callback that ran last
    steps,                \* number of callbacks run so far
    axes,                 \* return value of get_potential_separation_axes
    overlap_from_bounds,  \* return value of ConfigChecker._check_overlap_from_item_boundaries
    raw_arenas_dict,      \* the loaded YAML data handed to Preprocessor.create_arenas_list
    arenas,               \* the list of Arena objects it returns, given to the Dumper
    config_str,           \* return value of Dumper._get_complete_config_str
    path,                 \* return value of Visualiser._get_item_path
    resize_args           \* arguments of a direct call of RectangularCuboid.resize

rotation_vars == <<points, angle_deg, center_of_rotation, default_center_of_rotation,
                   rotated_points, calls>>

vertex_vars == <<rect_center, rect_width, rect_height, rect_angle, vertices,
                 unrotated_vertices>>

helper_vars == <<rotation_vars, vertex_vars>>

extra_vars == <<axes, overlap_from_bounds, raw_arenas_dict, arenas, config_str, path,
                resize_args>>

sat_vars == <<segment1, segment2, overlap, rec_cuboid1, rec_cuboid2, mtv, cuboids,
              items_with_overlap, mtv_again, rectangle1, rectangle2>>

core_vars == <<pc, segment1, segment2, overlap, rec_cuboid1, rec_cuboid2, mtv,
               cuboids, items_with_overlap, mtv_again, rectangle1, rectangle2,
               helper_vars, extra_vars>>

editor_vars == <<heap, next_id, physical_items, overlapping_items,
                 curr_item_to_move_ix, sliders, spawn_clicks, last_op, steps>>

vars == <<core_vars, editor_vars>>

\* ------------------------------------------------------------------------
\* Inputs of the core functions
\* ------------------------------------------------------------------------
Rotations == {0, 45, 90, 135}

Names == <<"A", "B", "C", "D">>

MinHeight == 0 - 1

N3(a, b, c) == <<Num(a), Num(b), Num(c)>>

Cuboid(x, z, y, l, w, h, rot, name) ==
    RectangularCuboid(N3(x, z, y), N3(l, w, h), rot, name, "grey")

NoCuboid == Cuboid(0, 0, 0, 1, 1, 1, 0, "")

\* Pairs that differ in horizontal placement, size and rotation.
HorizontalPairs ==
    {<<Cuboid(0, 0, 0, l1, w1, 1, r1, "A"), Cuboid(x2, z2, 0, l2, w2, 1, r2, "B")>> :
        l1 \in 1..MaxLength, w1 \in 1..MaxWidth, r1 \in Rotations,
        x2 \in (0 - MaxCoord)..MaxCoord, z2 \in 0..MaxCoord,
        l2 \in 1..MaxLength, w2 \in 1..MaxWidth, r2 \in Rotations}

\* Pairs that differ in base elevation and height (zero and negative heights
\* included), at a few horizontal placements.
VerticalPairs ==
    {<<Cuboid(0, 0, y1, 2, 2, h1, 0, "A"), Cuboid(x2, 0, y2, 2, 2, h2, r2, "B")>> :
        y1 \in 0..1, h1 \in MinHeight..MaxHeight,
        x2 \in {0, MaxCoord + 1}, y2 \in 0..MaxHeight, h2 \in MinHeight..MaxHeight,
        r2 \in {0, 45}}

\* Pairs in which at least one footprint has length 0 or width 0 (a segment
\* or a single point), lying across, beside or on the other footprint.
ZeroAreaPairs ==
    {p \in {<<Cuboid(0, 0, 0, l1, w1, 1, r1, "A"), Cuboid(x2, 0, 0, l2, w2, 1, r2, "B")>> :
                l1 \in 0..1, w1 \in 0..1, r1 \in {0, 45},
                x2 \in 0..1, l2 \in {0, 2}, w2 \in {0, 2}, r2 \in {0, 45}} :
        \/ p[1].length = Zero \/ p[1].width = Zero
        \/ p[2].length = Zero \/ p[2].width = Zero}

\* Scenes of up to MaxItems items named A, B, C, ... in list order.
SceneItems(name) ==
    {Cuboid(x, 0, 0, 2, 2, h, r, name) : x \in 0..MaxCoord, h \in 0..1, r \in {0, 45}}

RECURSIVE Scenes(_)
Scenes(n) ==
    IF n = 0 THEN {<<>>}
    ELSE {Append(s, c) : s \in Scenes(n - 1), c \in SceneItems(Names[n])}

SegmentEnds == (0 - MaxSeg)..MaxSeg

\* Pairs with centres and sizes that are multiples of 0.1, written in tenths
\* (every step of the engine is linear in the lengths, so the unit is free):
\* the cuboid of length 3, width 2, height 2 centred at x = 0.5 against the
\* same cuboid at x = 2.7 (overlapping) or x = 3.5 (touching), level with it
\* or shifted by 1 along z.
ExampleCuboid(x, z, name) == Cuboid(x, z, 0, 30, 20, 20, 0, name)

ExamplePairs ==
    {<<ExampleCuboid(5, 0, "A"), ExampleCuboid(x2, z2, "B")>> :
        x2 \in {27, 35}, z2 \in {0, 10}}

\* Rectangles of the module's two regression tests, in tenths: 3 x 2 at
\* (0.5, 0) and (2.7, 1), rotation 0; squares of side 2.5 at (3, 3), rotation
\* 45, and of side 2.4 at (4.5, 5), rotation 0.  Each pair is built as the
\* tests build it (depth and depth_start omitted) and with a depth given.
LegacyRectangle(x, y, width, height, deg_rotation, depth) ==
    IF depth = 0
    THEN RectangleWithDefaults(<<Num(x), Num(y)>>, Num(width), Num(height), deg_rotation)
    ELSE Rectangle(<<Num(x), Num(y)>>, Num(width), Num(height), deg_rotation,
                   Num(depth), Zero)

LegacyPairs ==
    {<<LegacyRectangle(5, 0, 30, 20, 0, d1), LegacyRectangle(27, 10, 30, 20, 0, d2)>> :
        d1 \in {0, 20}, d2 \in {0, 20}}
    \cup
    {<<LegacyRectangle(30, 30, 25, 25, 45, d1), LegacyRectangle(45, 50, 24, 24, 0, d2)>> :
        d1 \in {0, 20}, d2 \in {0, 20}}

\* Arrays of float points and pivots for calculate_clockwise_rotated_2d_points;
\* the pivot <<>> stands for a call that omits center_of_rotation.
P2(x, y) == <<Num(x), Num(y)>>

PointArrays ==
    {<<P2(1, 1)>>,
     <<P2(2, 0), P2(0, 1)>>,
     <<P2(0 - 1, 1), P2(1, 1), P2(1, 0 - 1), P2(0 - 1, 0 - 1)>>}

RotationAngles == {0, 45, 90, 0 - 90}

Pivots == {<<>>, P2(0, 0), P2(1, 0), P2(1, 0 - 3)}

\* Rectangles for the vertex functions: integer centres, widths and heights
\* (0 included), angles on both sides of 0.
RectangleCenters ==
    {P2(x, y) : x \in (0 - MaxCoord)..MaxCoord, y \in (0 - MaxCoord)..MaxCoord}

RectangleAngles == {0, 45, 90, 135, 180, 0 - 45, 0 - 90}

\* ------------------------------------------------------------------------
\* Calls of the core functions
\* ------------------------------------------------------------------------
\* The shared default of the parameter center_of_rotation: np.array([0, 0]).
DefaultCenterOfRotation == <<Zero, Zero>>

\* No call of the rotation and vertex functions is being followed.
NoHelperCall ==
    /\ points = <<>>
    /\ angle_deg = 0
    /\ center_of_rotation = <<>>
    /\ default_center_of_rotation = DefaultCenterOfRotation
    /\ rotated_points = <<>>
    /\ calls = 0
    /\ rect_center = <<Zero, Zero>>
    /\ rect_width = Zero
    /\ rect_height = Zero
    /\ rect_angle = 0
    /\ vertices = <<>>
    /\ unrotated_vertices = <<>>

\* No call on rectangles of src/separating_axis_theorem.py is being followed.
NoExtraCall ==
    /\ axes = <<>>
    /\ overlap_from_bounds = <<FALSE, Zero, Zero, Zero>>
    /\ raw_arenas_dict = <<>>
    /\ arenas = <<>>
    /\ config_str = [returned |-> "", heading |-> <<>>, sections |-> <<>>]
    /\ path = <<>>
    /\ resize_args = <<>>

NoRectangles ==
    /\ rectangle1 = <<>>
    /\ rectangle2 = <<>>

\* The arena of an editor: no item, nothing selected, sliders at their
\* defaults (src/app/setup.py).
EmptyEditor ==
    /\ heap = <<>>
    /\ next_id = 1
    /\ physical_items = <<>>
    /\ overlapping_items = {}
    /\ curr_item_to_move_ix = <<>>
    /\ sliders = [x |-> Zero, y |-> Zero, z |-> Zero, rot |-> 0]
    /\ spawn_clicks = 0
    /\ last_op = "none"
    /\ steps = 0

InitSegments ==
    /\ NoHelperCall
    /\ NoRectangles
    /\ mtv_again = <<Zero, Zero>>
    /\ pc = "segments"
    /\ EmptyEditor
    /\ NoExtraCall
    /\ \E a \in SegmentEnds, b \in SegmentEnds, c \in SegmentEnds, d \in SegmentEnds :
          /\ segment1 = <<Num(a), Num(b)>>
          /\ segment2 = <<Num(c), Num(d)>>
    /\ overlap = Zero
    /\ rec_cuboid1 = NoCuboid
    /\ rec_cuboid2 = NoCuboid
    /\ mtv = <<Zero, Zero>>
    /\ cuboids = <<>>
    /\ items_with_overlap = {}

InitSAT ==
    /\ NoHelperCall
    /\ NoRectangles
    /\ mtv_again = <<Zero, Zero>>
    /\ pc = "sat"
    /\ EmptyEditor
    /\ NoExtraCall
    /\ \E p \in HorizontalPairs \cup VerticalPairs \cup ExamplePairs \cup ZeroAreaPairs :
          /\ rec_cuboid1 = p[1]
          /\ rec_cuboid2 = p[2]
    /\ mtv = <<Zero, Zero>>
    /\ segment1 = <<Zero, Zero>>
    /\ segment2 = <<Zero, Zero>>
    /\ overlap = Zero
    /\ cuboids = <<>>
    /\ items_with_overlap = {}

InitScan ==
    /\ NoHelperCall
    /\ NoRectangles
    /\ mtv_again = <<Zero, Zero>>
    /\ pc = "scan"
    /\ EmptyEditor
    /\ NoExtraCall
    /\ \E n \in 0..MaxItems : cuboids \in Scenes(n)
    /\ items_with_overlap = {}
    /\ segment1 = <<Zero, Zero>>
    /\ segment2 = <<Zero, Zero>>
    /\ overlap = Zero
    /\ rec_cuboid1 = NoCuboid
    /\ rec_cuboid2 = NoCuboid
    /\ mtv = <<Zero, Zero>>

InitLegacySAT ==
    /\ pc = "legacy_sat"
    /\ NoHelperCall
    /\ EmptyEditor
    /\ NoExtraCall
    /\ \E p \in LegacyPairs :
          /\ rectangle1 = p[1]
          /\ rectangle2 = p[2]
    /\ mtv = <<Zero, Zero>>
    /\ mtv_again = <<Zero, Zero>>
    /\ segment1 = <<Zero, Zero>>
    /\ segment2 = <<Zero, Zero>>
    /\ overlap = Zero
    /\ rec_cuboid1 = NoCuboid
    /\ rec_cuboid2 = NoCuboid
    /\ cuboids = <<>>
    /\ items_with_overlap = {}

InitRotate ==
    /\ pc = "rotate"
    /\ EmptyEditor
    /\ NoExtraCall
    /\ NoRectangles
    /\ points \in PointArrays
    /\ angle_deg \in RotationAngles
    /\ center_of_rotation \in Pivots
    /\ default_center_of_rotation = DefaultCenterOfRotation
    /\ rotated_points = <<>>
    /\ calls = 0
    /\ rect_center = <<Zero, Zero>>
    /\ rect_width = Zero
    /\ rect_height = Zero
    /\ rect_angle = 0
    /\ vertices = <<>>
    /\ unrotated_vertices = <<>>
    /\ mtv = <<Zero, Zero>>
    /\ mtv_again = <<Zero, Zero>>
    /\ segment1 = <<Zero, Zero>>
    /\ segment2 = <<Zero, Zero>>
    /\ overlap = Zero
    /\ rec_cuboid1 = NoCuboid
    /\ rec_cuboid2 = NoCuboid
    /\ cuboids = <<>>
    /\ items_with_overlap = {}

InitVertices ==
    /\ pc = "vertices"
    /\ EmptyEditor
    /\ NoExtraCall
    /\ NoRectangles
    /\ rect_center \in RectangleCenters
    /\ rect_width \in {Num(w) : w \in 0..MaxLength}
    /\ rect_height \in {Num(h) : h \in 0..MaxWidth}
    /\ rect_angle \in RectangleAngles
    /\ vertices = <<>>
    /\ unrotated_vertices = <<>>
    /\ points = <<>>
    /\ angle_deg = 0
    /\ center_of_rotation = <<>>
    /\ default_center_of_rotation = DefaultCenterOfRotation
    /\ rotated_points = <<>>
    /\ calls = 0
    /\ mtv = <<Zero, Zero>>
    /\ mtv_again = <<Zero, Zero>>
    /\ segment1 = <<Zero, Zero>>
    /\ segment2 = <<Zero, Zero>>
    /\ overlap = Zero
    /\ rec_cuboid1 = NoCuboid
    /\ rec_cuboid2 = NoCuboid
    /\ cuboids = <<>>
    /\ items_with_overlap = {}

\* What a configuration file can hold.
YamlVector3(x, y, z) == [x |-> Num(x), y |-> Num(y), z |-> Num(z)]

YamlItems ==
    {[position |-> YamlVector3(1, 0, 2), rotation |-> 0,
      size |-> YamlVector3(3, 2, 1), colour |-> [r |-> 1, g |-> 2, b |-> 3]],
     [position |-> YamlVector3(0 - 1, 1, 0), rotation |-> 45,
      size |-> YamlVector3(1, 1, 2), colour |-> [r |-> 0, g |-> 0, b |-> 0]],
     [position |-> YamlVector3(2, 2, 0 - 2), rotation |-> 90,
      size |-> YamlVector3(2, 1, 1), colour |-> [r |-> 3, g |-> 2, b |-> 1]]}

YamlItemType(name, its) ==
    [name |-> name,
     positions |-> [k \in DOMAIN its |-> its[k].position],
     rotations |-> [k \in DOMAIN its |-> its[k].rotation],
     sizes |-> [k \in DOMAIN its |-> its[k].size],
     colors |-> [k \in DOMAIN its |-> its[k].colour]]

SeqsUpTo(S, n) == UNION {[1..k -> S] : k \in 1..n}

YamlItemTypes ==
    {YamlItemType(name, its) : name \in {"Wall", "Ramp"},
                               its \in SeqsUpTo(YamlItems, MaxGroupItems)}

YamlItemLists == {<<>>} \cup SeqsUpTo(YamlItemTypes, MaxGroups)

YamlArena(items) == [passMark |-> 0, timeLimit |-> 1000, items |-> items]

FurtherYamlArena ==
    YamlArena(<<YamlItemType("Ramp", <<CHOOSE it \in YamlItems : it.rotation = 90>>)>>)

RawArenasDicts ==
    {<<>>} \cup
    {<<YamlArena(items)>> \o [k \in 1..n |-> FurtherYamlArena] :
        items \in YamlItemLists, n \in 0..(MaxArenas - 1)}

\* No call of the engine, of the scanner or of a geometry helper is made.
NoCoreCall ==
    /\ NoHelperCall
    /\ NoRectangles
    /\ mtv = <<Zero, Zero>>
    /\ mtv_again = <<Zero, Zero>>
    /\ segment1 = <<Zero, Zero>>
    /\ segment2 = <<Zero, Zero>>
    /\ overlap = Zero
    /\ rec_cuboid1 = NoCuboid
    /\ rec_cuboid2 = NoCuboid
    /\ cuboids = <<>>
    /\ items_with_overlap = {}

\* A configuration has been read by the Loader and is about to be handed to
\* the Preprocessor and then to a Dumper.
InitLoad ==
    /\ pc = "load"
    /\ EmptyEditor
    /\ NoCoreCall
    /\ raw_arenas_dict \in RawArenasDicts
    /\ arenas = <<>>
    /\ config_str = [returned |-> "", heading |-> <<>>, sections |-> <<>>]
    /\ axes = <<>>
    /\ overlap_from_bounds = <<FALSE, Zero, Zero, Zero>>
    /\ path = <<>>
    /\ resize_args = <<>>

\* Items as the Preprocessor builds them, the blocks among them.
ItemTypes == {"Wall", "LBlock", "UBlock", "JBlock"}

ItemCuboids ==
    {RectangularCuboid(N3(x, 1, 0), N3(l, w, h), rot, set_item_name_from(type, 0),
                       [r |-> 1, g |-> 2, b |-> 3]) :
        x \in 0..1, l \in 1..MaxLength, w \in 1..MaxWidth, h \in 1..MaxHeight,
        rot \in Rotations, type \in ItemTypes}

\* What resize can be given for one dimension: None or a number.
ResizeArguments == {<<>>, <<Num(1)>>, <<Num(MaxLength)>>}

\* One item, about to be drawn or resized.
InitCuboid ==
    /\ pc = "cuboid"
    /\ EmptyEditor
    /\ NoHelperCall
    /\ NoRectangles
    /\ NoExtraCall
    /\ rec_cuboid1 \in ItemCuboids
    /\ rec_cuboid2 = NoCuboid
    /\ mtv = <<Zero, Zero>>
    /\ mtv_again = <<Zero, Zero>>
    /\ segment1 = <<Zero, Zero>>
    /\ segment2 = <<Zero, Zero>>
    /\ overlap = Zero
    /\ cuboids = <<>>
    /\ items_with_overlap = {}

InitCore ==
    \/ InitCuboid
    \/ InitLoad
    \/ InitSegments
    \/ InitSAT
    \/ InitScan
    \/ InitLegacySAT
    \/ InitRotate
    \/ InitVertices

CallSegmentOverlap ==
    /\ pc = "segments"
    /\ overlap' = determine_overlap_between_aligned_segments(segment1, segment2)
    /\ pc' = "segments_done"
    /\ UNCHANGED <<segment1, segment2, rec_cuboid1, rec_cuboid2, mtv, cuboids,
                   items_with_overlap, mtv_again, rectangle1, rectangle2, helper_vars,
                   extra_vars, editor_vars>>

\* Variant: the first cuboid's vertices are shifted in place by its centre.
CallSAT_shifting_vertices ==
    /\ pc = "sat"
    /\ mtv' = apply_separating_axis_theorem(rec_cuboid1, rec_cuboid2)
    /\ pc' = "sat_done"
    /\ rec_cuboid1' =
          [rec_cuboid1 EXCEPT !.lower_base_vertices =
              [i \in 1..4 |-> PSub(rec_cuboid1.lower_base_vertices[i],
                                   <<Num(1), Num(1)>>)]]
    /\ UNCHANGED <<segment1, segment2, overlap, rec_cuboid2, cuboids,
                   items_with_overlap, mtv_again, rectangle1, rectangle2, helper_vars,
                   extra_vars, editor_vars>>

CallSAT ==
    /\ pc = "sat"
    /\ mtv' = apply_separating_axis_theorem(rec_cuboid1, rec_cuboid2)
    /\ pc' = "sat_done"
    /\ UNCHANGED <<segment1, segment2, overlap, rec_cuboid1, rec_cuboid2, cuboids,
                   items_with_overlap, mtv_again, rectangle1, rectangle2, helper_vars,
                   extra_vars, editor_vars>>

\* Variant: the second call adds the vector of the first call to its own.
CallSATAgain_keeping_previous_result ==
    /\ pc = "sat_done"
    /\ mtv_again' = PAdd(mtv, apply_separating_axis_theorem(rec_cuboid1, rec_cuboid2))
    /\ pc' = "sat_twice_done"
    /\ UNCHANGED <<segment1, segment2, overlap, rec_cuboid1, rec_cuboid2, mtv, cuboids,
                   items_with_overlap, rectangle1, rectangle2, helper_vars, extra_vars,
                   editor_vars>>

\* A second call of apply_separating_axis_theorem on the same two cuboids.
CallSATAgain ==
    /\ pc = "sat_done"
    /\ mtv_again' = apply_separating_axis_theorem(rec_cuboid1, rec_cuboid2)
    /\ pc' = "sat_twice_done"
    /\ UNCHANGED <<segment1, segment2, overlap, rec_cuboid1, rec_cuboid2, mtv, cuboids,
                   items_with_overlap, rectangle1, rectangle2, helper_vars, extra_vars,
                   editor_vars>>

CallScan ==
    /\ pc = "scan"
    /\ items_with_overlap' = check_overlaps_between_cuboids(cuboids)
    /\ pc' = "scan_done"
    /\ UNCHANGED <<segment1, segment2, overlap, rec_cuboid1, rec_cuboid2, mtv, cuboids,
                   mtv_again, rectangle1, rectangle2, helper_vars, extra_vars, editor_vars>>

CallLegacySAT ==
    /\ pc = "legacy_sat"
    /\ mtv' = legacy_apply_separating_axis_theorem(rectangle1, rectangle2)
    /\ pc' = "legacy_sat_done"
    /\ UNCHANGED <<segment1, segment2, overlap, rec_cuboid1, rec_cuboid2, cuboids,
                   items_with_overlap, mtv_again, rectangle1, rectangle2, helper_vars,
                   extra_vars, editor_vars>>

\* calculate_clockwise_rotated_2d_points(points, angle_deg[, center_of_rotation])
\* called on the caller's arrays, again and again.
CallRotate ==
    /\ pc = "rotate"
    /\ calls < MaxCalls
    /\ LET pivot == IF center_of_rotation = <<>> THEN default_center_of_rotation
                    ELSE center_of_rotation
       IN  /\ rotated_points' = calculate_clockwise_rotated_2d_points(points, angle_deg, pivot)
           /\ points' = points_after_clockwise_rotation(points, pivot)
    /\ calls' = calls + 1
    /\ UNCHANGED <<pc, segment1, segment2, overlap, rec_cuboid1, rec_cuboid2, mtv, cuboids,
                   items_with_overlap, mtv_again, rectangle1, rectangle2, angle_deg,
                   center_of_rotation, default_center_of_rotation, vertex_vars,
                   extra_vars, editor_vars>>

\* calculate_vertices_of_axis_aligned_rectangle(center, width, height)
CallAxisAlignedVertices ==
    /\ pc = "vertices"
    /\ vertices' = calculate_vertices_of_axis_aligned_rectangle(rect_center, rect_width,
                                                                rect_height)
    /\ pc' = "aligned_done"
    /\ UNCHANGED <<segment1, segment2, overlap, rec_cuboid1, rec_cuboid2, mtv, cuboids,
                   items_with_overlap, mtv_again, rectangle1, rectangle2, rotation_vars,
                   rect_center, rect_width, rect_height, rect_angle, unrotated_vertices,
                   extra_vars, editor_vars>>

\* calculate_vertices_of_rotated_rectangle(center, width, height, angle_deg);
\* the array its inner call subtracts from in place is its own local one.
CallRotatedVertices ==
    /\ pc = "vertices"
    /\ vertices' = calculate_vertices_of_rotated_rectangle(rect_center, rect_width,
                                                           rect_height, rect_angle)
    /\ pc' = "rotated_done"
    /\ UNCHANGED <<segment1, segment2, overlap, rec_cuboid1, rec_cuboid2, mtv, cuboids,
                   items_with_overlap, mtv_again, rectangle1, rectangle2, rotation_vars,
                   rect_center, rect_width, rect_height, rect_angle, unrotated_vertices,
                   extra_vars, editor_vars>>

\* calculate_clockwise_rotated_2d_points(vertices, -angle_deg, center) on the
\* vertices just returned.
CallRotateBack ==
    /\ pc = "rotated_done"
    /\ unrotated_vertices' =
          calculate_clockwise_rotated_2d_points(vertices, 0 - rect_angle, rect_center)
    /\ vertices' = points_after_clockwise_rotation(vertices, rect_center)
    /\ pc' = "unrotated_done"
    /\ UNCHANGED <<segment1, segment2, overlap, rec_cuboid1, rec_cuboid2, mtv, cuboids,
                   items_with_overlap, mtv_again, rectangle1, rectangle2, rotation_vars,
                   rect_center, rect_width, rect_height, rect_angle, extra_vars,
                   editor_vars>>

\* get_potential_separation_axes(deg_angle)
CallSeparationAxes ==
    /\ pc = "vertices"
    /\ axes' = get_potential_separation_axes(rect_angle)
    /\ pc' = "axes_done"
    /\ UNCHANGED <<sat_vars, helper_vars, overlap_from_bounds, raw_arenas_dict, arenas,
                   config_str, path, resize_args, editor_vars>>

\* calculate_vertices_of_axis_aligned_l_block(center, width, height)
CallLBlockVertices ==
    /\ pc = "vertices"
    /\ vertices' = calculate_vertices_of_axis_aligned_l_block(rect_center, rect_width,
                                                              rect_height)
    /\ pc' = "l_block_done"
    /\ UNCHANGED <<sat_vars, rotation_vars, rect_center, rect_width, rect_height,
                   rect_angle, unrotated_vertices, extra_vars, editor_vars>>

\* calculate_vertices_of_axis_aligned_u_block(center, width, height)
CallUBlockVertices ==
    /\ pc = "vertices"
    /\ vertices' = calculate_vertices_of_axis_aligned_u_block(rect_center, rect_width,
                                                              rect_height)
    /\ pc' = "u_block_done"
    /\ UNCHANGED <<sat_vars, rotation_vars, rect_center, rect_width, rect_height,
                   rect_angle, unrotated_vertices, extra_vars, editor_vars>>

\* calculate_vertices_of_axis_aligned_j_block(center, width, height)
CallJBlockVertices ==
    /\ pc = "vertices"
    /\ vertices' = calculate_vertices_of_axis_aligned_j_block(rect_center, rect_width,
                                                              rect_height)
    /\ pc' = "j_block_done"
    /\ UNCHANGED <<sat_vars, rotation_vars, rect_center, rect_width, rect_height,
                   rect_angle, unrotated_vertices, extra_vars, editor_vars>>

\* Preprocessor.create_arenas_list(raw_arenas_dict)
CallCreateArenasList ==
    /\ pc = "load"
    /\ arenas' = create_arenas_list(raw_arenas_dict)
    /\ pc' = "loaded"
    /\ UNCHANGED <<sat_vars, helper_vars, axes, overlap_from_bounds, raw_arenas_dict, config_str,
                   path, resize_args, editor_vars>>

\* Dumper(arenas, path)._get_complete_config_str(level=0), as dump calls it.
CallGetCompleteConfigStr ==
    /\ pc = "loaded"
    /\ arenas # <<>> => arenas[1].physical_items # <<>>
    /\ config_str' = get_complete_config_str(arenas, 0)
    /\ pc' = "dumped"
    /\ UNCHANGED <<sat_vars, helper_vars, axes, overlap_from_bounds, raw_arenas_dict, arenas,
                   path, resize_args, editor_vars>>

\* The same call when the first arena has no item: _rearrange_items_per_type
\* raises IndexError at items[0] and nothing is returned.
CallGetCompleteConfigStrRaises ==
    /\ pc = "loaded"
    /\ arenas # <<>>
    /\ arenas[1].physical_items = <<>>
    /\ pc' = "dump_raised"
    /\ UNCHANGED <<sat_vars, helper_vars, extra_vars, editor_vars>>

\* ConfigChecker._check_overlap_from_item_boundaries on the bounds of the two
\* cuboids the engine has just been called on.
CallCheckOverlapFromItemBoundaries ==
    /\ pc = "sat_done"
    /\ overlap_from_bounds' =
          check_overlap_from_item_boundaries(
              calculate_item_bounds(position_of(rec_cuboid1), size_of(rec_cuboid1)),
              calculate_item_bounds(position_of(rec_cuboid2), size_of(rec_cuboid2)))
    /\ pc' = "bounds_done"
    /\ UNCHANGED <<sat_vars, helper_vars, axes, raw_arenas_dict, arenas, config_str, path,
                   resize_args, editor_vars>>

\* Visualiser._get_cuboid_x_and_y_contour_paths(cuboid)
CallGetCuboidContourPaths ==
    /\ pc = "cuboid"
    /\ path' = get_cuboid_x_and_y_contour_paths(rec_cuboid1)
    /\ pc' = "path_done"
    /\ UNCHANGED <<sat_vars, helper_vars, axes, overlap_from_bounds, raw_arenas_dict,
                   arenas, config_str, resize_args, editor_vars>>

\* cuboid.resize(resized_length, resized_width, resized_height), each argument
\* given or left at None; the object is changed in place.
CallResize ==
    /\ pc = "cuboid"
    /\ \E resized_length \in ResizeArguments, resized_width \in ResizeArguments,
          resized_height \in ResizeArguments :
          /\ resize_args' = <<resized_length, resized_width, resized_height>>
          /\ rec_cuboid1' = resize(rec_cuboid1, resized_length, resized_width, resized_height)
    /\ pc' = "resized"
    /\ UNCHANGED <<segment1, segment2, overlap, rec_cuboid2, mtv, cuboids,
                   items_with_overlap, mtv_again, rectangle1, rectangle2, helper_vars, axes,
                   overlap_from_bounds, raw_arenas_dict, arenas, config_str, path,
                   editor_vars>>

NextCore ==
    \/ CallGetCuboidContourPaths
    \/ CallResize
    \/ CallCheckOverlapFromItemBoundaries
    \/ CallCreateArenasList
    \/ CallGetCompleteConfigStr
    \/ CallGetCompleteConfigStrRaises
    \/ CallSeparationAxes
    \/ CallLBlockVertices
    \/ CallUBlockVertices
    \/ CallJBlockVertices
    \/ CallAxisAlignedVertices
    \/ CallRotatedVertices
    \/ CallRotateBack
    \/ CallSegmentOverlap
    \/ CallSAT
    \/ CallSATAgain
    \/ CallScan
    \/ CallLegacySAT
    \/ CallRotate

SpecCore == InitCore /\ [][NextCore]_vars

\* ------------------------------------------------------------------------
\* The editor (src/app/callback_registrar.py).  Every action is one Dash
\* callback, run to completion.
\* ------------------------------------------------------------------------
FALLBACK_ITEM_SIZE == 1
DEFAULT_SPAWNED_ITEM_ROTATION == 0
DEFAULT_SPAWNED_LOCATION_X == 0
DEFAULT_SPAWNED_LOCATION_Y == 0
DEFAULT_SPAWNED_LOCATION_Z == 0

\* Python list indexing and slicing, for a 0-based index ix that may be
\* negative; positions of the model's sequences are 1-based.
py_index_ok(s, ix) == (0 - Len(s)) <= ix /\ ix < Len(s)

py_position(s, ix) == IF ix < 0 THEN ix + Len(s) + 1 ELSE ix + 1

py_slice_bound(s, k) ==
    IF k < 0 THEN (IF k + Len(s) < 0 THEN 0 ELSE k + Len(s))
    ELSE (IF k > Len(s) THEN Len(s) ELSE k)

\* s[:k]
py_slice_to(s, k) == SubSeq(s, 1, py_slice_bound(s, k))

\* s[k:]
py_slice_from(s, k) == SubSeq(s, py_slice_bound(s, k) + 1, Len(s))

\* float(number_text) for the texts the model types into the size fields.
py_float(number_text) ==
    CASE number_text = "1" -> Num(1)
      [] number_text = "2" -> Num(2)

transform_str_to_float_dimensions(number_text1, number_text2, number_text3) ==
    LET texts == <<number_text1, number_text2, number_text3>>
    IN  [index \in 1..3 |->
            IF texts[index] # "" THEN py_float(texts[index])
            ELSE Num(FALLBACK_ITEM_SIZE)]

\* The cuboids behind a list of references.
CuboidsOf(h, items) == [i \in 1..Len(items) |-> h[items[i]]]

\* The objects still referenced by the list (the others are unreachable).
Reachable(h, items) == [id \in {items[i] : i \in 1..Len(items)} |-> h[id]]

\* Variant: the vertices are left as they are.
keep_curr_item_lower_base_vertices(c, xz_rotation) == c

update_curr_item_lower_base_vertices(c, xz_rotation) ==
    [c EXCEPT !.lower_base_vertices =
        calculate_vertices_of_rotated_rectangle(
            <<c.center[1], c.center[2]>>, c.length, c.width, xz_rotation)]

\* What the user can type and select.
DimensionTexts == {<<"", "", "">>, <<"2", "", "2">>}

SliderRotations == {0, 45}

SliderSettings ==
    [x : {Num(v) : v \in 0..MaxSlider},
     y : {Num(v) : v \in 0..MaxSlider},
     z : {Num(v) : v \in 0..MaxSlider},
     rot : SliderRotations]

\* One slider is dragged (or none: the callback also runs when a click has
\* written the sliders).
OneSliderChange(old, new) ==
    Cardinality({f \in {"x", "y", "z", "rot"} : old[f] # new[f]}) <= 1

ItemName(type_name, auto, ix) == [type |-> type_name, auto |-> auto, ix |-> ix]

\* The arenas a configuration file can describe (Preprocessor).
ConfigItem0 == RectangularCuboid(N3(0, 0, 0), N3(1, 1, 1), 0, ItemName("Wall", FALSE, 0), "grey")

ConfigItem1 == RectangularCuboid(N3(1, 1, 0), N3(2, 1, 1), 45, ItemName("Wall", FALSE, 1), "grey")

InitialArenas == {<<>>, <<ConfigItem0>>, <<ConfigItem0, ConfigItem1>>}

Init ==
    /\ pc = "editor"
    /\ NoHelperCall
    /\ NoExtraCall
    /\ NoRectangles
    /\ mtv_again = <<Zero, Zero>>
    /\ segment1 = <<Zero, Zero>>
    /\ segment2 = <<Zero, Zero>>
    /\ overlap = Zero
    /\ rec_cuboid1 = NoCuboid
    /\ rec_cuboid2 = NoCuboid
    /\ mtv = <<Zero, Zero>>
    /\ cuboids = <<>>
    /\ items_with_overlap = {}
    /\ \E arena \in InitialArenas :
          /\ heap = [id \in 1..Len(arena) |-> arena[id]]
          /\ physical_items = [i \in 1..Len(arena) |-> i]
          /\ next_id = Len(arena) + 1
    /\ overlapping_items = {}
    /\ curr_item_to_move_ix = <<>>
    /\ sliders = [x |-> Zero, y |-> Zero, z |-> Zero, rot |-> 0]
    /\ spawn_clicks = 0
    /\ last_op = "none"
    /\ steps = 0

\* _update_sliders: an item of the diagram is clicked; curveNumber is the
\* position of its trace, one trace per item of the list.
UpdateSliders ==
    /\ pc = "editor"
    /\ steps < MaxSteps
    /\ \E curveNumber \in 0..(Len(physical_items) - 1) :
          LET ix == curveNumber
              c == heap[physical_items[py_position(physical_items, ix)]]
          IN  /\ curr_item_to_move_ix' = <<ix>>
              /\ sliders' = [x |-> c.center[1], y |-> c.center[3], z |-> c.center[2],
                             rot |-> c.deg_rotation]
    /\ last_op' = "click"
    /\ steps' = steps + 1
    /\ UNCHANGED <<core_vars, heap, next_id, physical_items, overlapping_items, spawn_clicks>>

\* _move_cuboid with _update_pre_plotting_attributes.
MoveCuboid ==
    /\ pc = "editor"
    /\ steps < MaxSteps
    /\ curr_item_to_move_ix # <<>>
    /\ py_index_ok(physical_items, curr_item_to_move_ix[1])
    /\ \E new \in SliderSettings :
          /\ OneSliderChange(sliders, new)
          /\ sliders' = new
          /\ LET item_ix == curr_item_to_move_ix[1]
                 id == physical_items[py_position(physical_items, item_ix)]
                 moved == [heap[id] EXCEPT !.center = <<new.x, new.z, new.y>>,
                                           !.deg_rotation = new.rot]
                 h == [heap EXCEPT ![id] = update_curr_item_lower_base_vertices(moved, new.rot)]
             IN  /\ heap' = h
                 /\ overlapping_items' =
                       check_overlaps_between_cuboids(CuboidsOf(h, physical_items))
    /\ last_op' = "move"
    /\ steps' = steps + 1
    /\ UNCHANGED <<core_vars, next_id, physical_items, curr_item_to_move_ix, spawn_clicks>>

\* _move_cuboid when no item index was ever set (AttributeError) or the
\* index is outside the list (IndexError): the callback raises at its first
\* access to the item and changes nothing.
MoveCuboidRaises ==
    /\ pc = "editor"
    /\ steps < MaxSteps
    /\ \/ curr_item_to_move_ix = <<>>
       \/ /\ curr_item_to_move_ix # <<>>
          /\ ~py_index_ok(physical_items, curr_item_to_move_ix[1])
    /\ \E new \in SliderSettings :
          /\ OneSliderChange(sliders, new)
          /\ sliders' = new
    /\ last_op' = "move_raised"
    /\ steps' = steps + 1
    /\ UNCHANGED <<core_vars, heap, next_id, physical_items, overlapping_items,
                   curr_item_to_move_ix, spawn_clicks>>

\* _spawn_item with an item selected in the dropdown.
SpawnItem ==
    /\ pc = "editor"
    /\ steps < MaxSteps
    /\ \E item_dropdown_value \in {"Wall"}, texts \in DimensionTexts :
          LET num_spawn_button_clicks == spawn_clicks + 1
              spawned_auto_cuboid ==
                  RectangularCuboid(
                      N3(DEFAULT_SPAWNED_LOCATION_X, DEFAULT_SPAWNED_LOCATION_Z,
                         DEFAULT_SPAWNED_LOCATION_Y),
                      transform_str_to_float_dimensions(texts[1], texts[2], texts[3]),
                      DEFAULT_SPAWNED_ITEM_ROTATION,
                      ItemName(item_dropdown_value, TRUE, num_spawn_button_clicks),
                      "grey")
              items == Append(physical_items, next_id)
              h == [id \in DOMAIN heap \cup {next_id} |->
                       IF id = next_id
                       THEN update_curr_item_lower_base_vertices(
                                spawned_auto_cuboid, DEFAULT_SPAWNED_ITEM_ROTATION)
                       ELSE heap[id]]
          IN  /\ physical_items' = items
              /\ heap' = h
              /\ overlapping_items' = check_overlaps_between_cuboids(CuboidsOf(h, items))
    /\ next_id' = next_id + 1
    /\ curr_item_to_move_ix' = <<0 - 1>>
    /\ spawn_clicks' = spawn_clicks + 1
    /\ last_op' = "spawn"
    /\ steps' = steps + 1
    /\ UNCHANGED <<core_vars, sliders>>

\* _spawn_item with nothing selected in the dropdown: returns None.
SpawnNothing ==
    /\ pc = "editor"
    /\ steps < MaxSteps
    /\ spawn_clicks' = spawn_clicks + 1
    /\ last_op' = "spawn_nothing"
    /\ steps' = steps + 1
    /\ UNCHANGED <<core_vars, heap, next_id, physical_items, overlapping_items,
                   curr_item_to_move_ix, sliders>>

\* Variant: the list of overlapping items is not computed again.
RemoveCurrentItem_keeping_overlapping_items ==
    /\ pc = "editor"
    /\ steps < MaxSteps
    /\ curr_item_to_move_ix # <<>>
    /\ LET curr_item_ix == curr_item_to_move_ix[1]
           items == py_slice_to(physical_items, curr_item_ix)
                        \o py_slice_from(physical_items, curr_item_ix + 1)
       IN  /\ physical_items' = items
           /\ heap' = Reachable(heap, items)
    /\ last_op' = "remove"
    /\ steps' = steps + 1
    /\ UNCHANGED <<core_vars, next_id, overlapping_items, curr_item_to_move_ix, sliders,
                   spawn_clicks>>

\* _remove_current_item (the button has been clicked, so n_clicks > 0).
RemoveCurrentItem ==
    /\ pc = "editor"
    /\ steps < MaxSteps
    /\ curr_item_to_move_ix # <<>>
    /\ LET curr_item_ix == curr_item_to_move_ix[1]
           items == py_slice_to(physical_items, curr_item_ix)
                        \o py_slice_from(physical_items, curr_item_ix + 1)
           h == Reachable(heap, items)
       IN  /\ physical_items' = items
           /\ heap' = h
           /\ overlapping_items' = check_overlaps_between_cuboids(CuboidsOf(h, items))
    /\ last_op' = "remove"
    /\ steps' = steps + 1
    /\ UNCHANGED <<core_vars, next_id, curr_item_to_move_ix, sliders, spawn_clicks>>

\* _resize_current_item (n_clicks > 0) on an existing item.
ResizeCurrentItem ==
    /\ pc = "editor"
    /\ steps < MaxSteps
    /\ curr_item_to_move_ix # <<>>
    /\ py_index_ok(physical_items, curr_item_to_move_ix[1])
    /\ \E texts \in DimensionTexts :
          LET dims == transform_str_to_float_dimensions(texts[1], texts[2], texts[3])
              id == physical_items[py_position(physical_items, curr_item_to_move_ix[1])]
              h == [heap EXCEPT ![id] = resize(heap[id], <<dims[1]>>, <<dims[2]>>, <<dims[3]>>)]
          IN  /\ heap' = h
              /\ overlapping_items' =
                    check_overlaps_between_cuboids(CuboidsOf(h, physical_items))
    /\ last_op' = "resize"
    /\ steps' = steps + 1
    /\ UNCHANGED <<core_vars, next_id, physical_items, curr_item_to_move_ix, sliders,
                   spawn_clicks>>

\* _remove_current_item and _resize_current_item raise and change nothing
\* when the item index was never set (AttributeError); _resize_current_item
\* also when the index is outside the list (IndexError).
RemoveOrResizeRaises ==
    /\ pc = "editor"
    /\ steps < MaxSteps
    /\ \/ /\ curr_item_to_move_ix = <<>>
          /\ last_op' \in {"remove_raised", "resize_raised"}
       \/ /\ curr_item_to_move_ix # <<>>
          /\ ~py_index_ok(physical_items, curr_item_to_move_ix[1])
          /\ last_op' = "resize_raised"
    /\ steps' = steps + 1
    /\ UNCHANGED <<core_vars, heap, next_id, physical_items, overlapping_items,
                   curr_item_to_move_ix, sliders, spawn_clicks>>

Next ==
    \/ UpdateSliders
    \/ MoveCuboid
    \/ MoveCuboidRaises
    \/ SpawnItem
    \/ SpawnNothing
    \/ RemoveCurrentItem
    \/ ResizeCurrentItem
    \/ RemoveOrResizeRaises

Spec == Init /\ [][Next]_vars

\* ------------------------------------------------------------------------
\* Properties of the core functions (checked under SpecCore)
\* ------------------------------------------------------------------------
\* The integer an input number stands for (inputs are integers).
IntOf(q) == q[1]

IMin(i, j) == IF i <= j THEN i ELSE j

IMax(i, j) == IF i >= j THEN i ELSE j

\* Length of the intersection of the segments with ends a, b and c, d.
SegmentIntersectionLength(a, b, c, d) ==
    IMax(0, IMin(IMax(a, b), IMax(c, d)) - IMax(IMin(a, b), IMin(c, d)))

\* Length of the common part of the two cuboids' vertical segments, the
\* segment of a cuboid having the ends center_y and center_y + height.
VerticalCommonLength(c1, c2) ==
    SegmentIntersectionLength(
        IntOf(c1.center[3]), IntOf(c1.center[3]) + IntOf(c1.height),
        IntOf(c2.center[3]), IntOf(c2.center[3]) + IntOf(c2.height))

\* Overlap of the two footprints' projections on an axis, from the extreme
\* projections of their vertices.
ProjectionOverlap(c1, c2, axis) ==
    LET i1 == get_min_max_projections(c1.lower_base_vertices, axis)
        i2 == get_min_max_projections(c2.lower_base_vertices, axis)
        hi == IF Le(i1[2], i2[2]) THEN i1[2] ELSE i2[2]
        lo == IF Le(i1[1], i2[1]) THEN i2[1] ELSE i1[1]
    IN  IF Lt(lo, hi) THEN Sub(hi, lo) ELSE Zero

CandidateAxes(c1, c2) ==
    {get_potential_separation_axes(c.deg_rotation)[i] : c \in {c1, c2}, i \in 1..2}

SquaredLength(v) == Add(Mul(v[1], v[1]), Mul(v[2], v[2]))

\* C10: determine_overlap_between_aligned_segments returns
\* max(0, min(hi1, hi2) - max(lo1, lo2)), the length of the intersection of
\* the two segments: never negative, and 0 when they are disjoint or share
\* only an endpoint.
C10_SegmentOverlapIsIntersectionLength ==
    pc = "segments_done" =>
        LET a == IntOf(segment1[1])
            b == IntOf(segment1[2])
            c == IntOf(segment2[1])
            d == IntOf(segment2[2])
        IN  /\ overlap = Num(SegmentIntersectionLength(a, b, c, d))
            /\ Sign(overlap) >= 0
            /\ (IMax(a, b) <= IMin(c, d) \/ IMax(c, d) <= IMin(a, b)) => overlap = Zero

C10_Witness ==
    /\ pc = "segments_done"
    /\ segment1 = <<Num(0 - 1), Num(3)>>
    /\ segment2 = <<Num(2), Num(5)>>
    /\ overlap = Num(1)

\* C11: the segment overlap is symmetric: the value returned for
\* (segment1, segment2) is the value the function returns for
\* (segment2, segment1).
C11_SegmentOverlapIsSymmetric ==
    pc = "segments_done" =>
        overlap = determine_overlap_between_aligned_segments(segment2, segment1)

\* Two different segments, the second given with its ends in descending
\* order, with a common part of length 2.
C11_Witness ==
    /\ pc = "segments_done"
    /\ segment1 = <<Num(0), Num(4)>>
    /\ segment2 = <<Num(2), Num(0 - 3)>>
    /\ overlap = Num(2)

\* C2: two cuboids whose vertical segments have no common length (disjoint
\* or merely touching) get the zero vector, whatever their horizontal
\* placement, size and rotation.
C2_VerticallyApartGivesZeroVector ==
    (pc = "sat_done" /\ VerticalCommonLength(rec_cuboid1, rec_cuboid2) = 0)
        => mtv = <<Zero, Zero>>

\* Same horizontal placement, bases two apart, height 1 each.
C2_Witness ==
    /\ pc = "sat_done"
    /\ rec_cuboid1.lower_base_vertices = rec_cuboid2.lower_base_vertices
    /\ rec_cuboid1.height = Num(1)
    /\ rec_cuboid2.height = Num(1)
    /\ rec_cuboid1.center[3] = Num(0)
    /\ rec_cuboid2.center[3] = Num(2)
    /\ mtv = <<Zero, Zero>>

\* C3: when the cuboids overlap vertically and every candidate axis shows a
\* non-zero projection overlap, the result is min_overlap * axis for a
\* candidate axis that attains the smallest overlap; its length is that
\* smallest overlap and exceeds the overlap on no candidate axis.
C3_MtvIsSmallestOverlapTimesItsAxis ==
    (/\ pc = "sat_done"
     /\ VerticalCommonLength(rec_cuboid1, rec_cuboid2) > 0
     /\ \A axis \in CandidateAxes(rec_cuboid1, rec_cuboid2) :
            ProjectionOverlap(rec_cuboid1, rec_cuboid2, axis) # Zero)
        => /\ mtv # <<Zero, Zero>>
           /\ \E axis \in CandidateAxes(rec_cuboid1, rec_cuboid2) :
                 LET ov == ProjectionOverlap(rec_cuboid1, rec_cuboid2, axis)
                 IN  /\ \A other \in CandidateAxes(rec_cuboid1, rec_cuboid2) :
                            Le(ov, ProjectionOverlap(rec_cuboid1, rec_cuboid2, other))
                     /\ mtv = <<Mul(ov, axis[1]), Mul(ov, axis[2])>>
                     /\ SquaredLength(mtv) = Mul(ov, ov)

\* A rotated footprint against an axis-aligned one, overlapping, with two
\* different per-axis overlaps.
C3_Witness ==
    /\ pc = "sat_done"
    /\ mtv # <<Zero, Zero>>
    /\ rec_cuboid1.deg_rotation = 45
    /\ rec_cuboid2.deg_rotation = 0
    /\ \E a \in CandidateAxes(rec_cuboid1, rec_cuboid2) :
       \E b \in CandidateAxes(rec_cuboid1, rec_cuboid2) :
            Lt(ProjectionOverlap(rec_cuboid1, rec_cuboid2, a),
               ProjectionOverlap(rec_cuboid1, rec_cuboid2, b))

\* C12: the rotation-0 cuboids of length 3, width 2 and height 2 with the
\* same base elevation and the same z, centred at x = 0.5 and x = 2.7, are
\* reported as overlapping with the vector (0.8, 0): the overlap along x is
\* 0.8, along z it is 2, and the vector lies along x (lengths in tenths).
C12_ExamplePairGivesEightTenthsAlongX ==
    (/\ pc = "sat_done"
     /\ rec_cuboid1 = ExampleCuboid(5, 0, "A")
     /\ rec_cuboid2 = ExampleCuboid(27, 0, "B"))
        => /\ ~mtv_is_zero(mtv)
           /\ mtv = <<Num(8), Zero>>
           /\ ProjectionOverlap(rec_cuboid1, rec_cuboid2, <<Num(1), Zero>>) = Num(8)
           /\ ProjectionOverlap(rec_cuboid1, rec_cuboid2, <<Zero, Num(1)>>) = Num(20)

C12_Witness ==
    /\ pc = "sat_done"
    /\ rec_cuboid1.center = N3(5, 0, 0)
    /\ rec_cuboid2.center = N3(27, 0, 0)
    /\ rec_cuboid1.length = Num(30)
    /\ rec_cuboid2.width = Num(20)
    /\ mtv = <<Num(8), Zero>>

\* Overlap of the two rectangles' projections on an axis.
RectangleProjectionOverlap(r1, r2, axis) ==
    LET i1 == get_min_max_projections(r1.vertices, axis)
        i2 == get_min_max_projections(r2.vertices, axis)
        hi == IF Le(i1[2], i2[2]) THEN i1[2] ELSE i2[2]
        lo == IF Le(i1[1], i2[1]) THEN i2[1] ELSE i1[1]
    IN  IF Lt(lo, hi) THEN Sub(hi, lo) ELSE Zero

\* C13: for two Rectangle objects built from centre, width, height and
\* rotation only, the earlier module's engine returns the horizontal vector:
\* the smallest per-axis overlap times its axis whenever every candidate
\* axis shows an overlap, and (0.8, 0) for the rotation-0 rectangles of width
\* 3 and height 2 centred at (0.5, 0) and (2.7, 1) (lengths in tenths).
C13_LegacyEngineReturnsHorizontalMtv ==
    (/\ pc = "legacy_sat_done"
     /\ rectangle1.depth = Zero /\ rectangle1.depth_start = Zero
     /\ rectangle2.depth = Zero /\ rectangle2.depth_start = Zero
     /\ \A axis \in CandidateAxes(rectangle1, rectangle2) :
            RectangleProjectionOverlap(rectangle1, rectangle2, axis) # Zero)
        => /\ \E axis \in CandidateAxes(rectangle1, rectangle2) :
                 LET ov == RectangleProjectionOverlap(rectangle1, rectangle2, axis)
                 IN  /\ \A other \in CandidateAxes(rectangle1, rectangle2) :
                            Le(ov, RectangleProjectionOverlap(rectangle1, rectangle2, other))
                     /\ mtv = <<Mul(ov, axis[1]), Mul(ov, axis[2])>>
           /\ (rectangle1.center = <<Num(5), Zero>> /\ rectangle2.center = <<Num(27), Num(10)>>)
                 => mtv = <<Num(8), Zero>>

\* C4: if the projections on at least one candidate axis are disjoint or
\* share only an endpoint, the result is the zero vector, even when every
\* other candidate axis shows a positive overlap.
C4_OneSeparatingAxisGivesZeroVector ==
    (/\ pc = "sat_done"
     /\ \E axis \in CandidateAxes(rec_cuboid1, rec_cuboid2) :
            LET i1 == get_min_max_projections(rec_cuboid1.lower_base_vertices, axis)
                i2 == get_min_max_projections(rec_cuboid2.lower_base_vertices, axis)
            IN  Le(i1[2], i2[1]) \/ Le(i2[2], i1[1]))
        => mtv = <<Zero, Zero>>

\* Vertically overlapping footprints that touch along an edge: one axis
\* with zero overlap, all the others with a positive overlap.
C4_Witness ==
    /\ pc = "sat_done"
    /\ VerticalCommonLength(rec_cuboid1, rec_cuboid2) > 0
    /\ mtv = <<Zero, Zero>>
    /\ \E axis \in CandidateAxes(rec_cuboid1, rec_cuboid2) :
          /\ get_min_max_projections(rec_cuboid1.lower_base_vertices, axis)[2]
                = get_min_max_projections(rec_cuboid2.lower_base_vertices, axis)[1]
          /\ \A other \in CandidateAxes(rec_cuboid1, rec_cuboid2) \ {axis} :
                ProjectionOverlap(rec_cuboid1, rec_cuboid2, other) # Zero

\* The cuboid moved by the vector m in the horizontal plane.
Translated(c, m) ==
    RectangularCuboid(<<Add(c.center[1], m[1]), Add(c.center[2], m[2]), c.center[3]>>,
                      <<c.length, c.width, c.height>>, c.deg_rotation, c.name, c.colour)

C6_NonPositiveHeightNeverOverlaps ==
    /\ (pc = "sat_done" /\ (Sign(rec_cuboid1.height) <= 0 \/ Sign(rec_cuboid2.height) <= 0))
          => mtv = <<Zero, Zero>>
    /\ pc = "scan_done" =>
          \A i \in 1..Len(cuboids) :
              Sign(cuboids[i].height) <= 0 => cuboids[i].name \notin items_with_overlap

\* C6 amended: a cuboid with height = 0 gets the zero vector against every
\* other cuboid, and the scanner never reports its name.
C6_ZeroHeightNeverOverlaps ==
    /\ (pc = "sat_done" /\ (rec_cuboid1.height = Zero \/ rec_cuboid2.height = Zero))
          => mtv = <<Zero, Zero>>
    /\ pc = "scan_done" =>
          \A i \in 1..Len(cuboids) :
              cuboids[i].height = Zero => cuboids[i].name \notin items_with_overlap

\* A flat cuboid whose base lies strictly inside the other's vertical
\* extent, at the same horizontal place.
C6_Witness ==
    /\ pc = "sat_done"
    /\ rec_cuboid1.height = Zero
    /\ rec_cuboid1.center[3] = Num(1)
    /\ rec_cuboid2.center = N3(0, 0, 0)
    /\ rec_cuboid2.height = Num(2)
    /\ do_overlap(axis_overlaps(rec_cuboid1, rec_cuboid2))
    /\ mtv = <<Zero, Zero>>

\* C1: the scanner returns exactly the names that belong to at least one
\* pair (i, j), i < j, for which the engine returns a non-zero vector; fewer
\* than two items give the empty set.
C1_ScanReturnsNamesOfOverlappingPairs ==
    pc = "scan_done" =>
        /\ \A name \in {Names[k] : k \in DOMAIN Names} :
              name \in items_with_overlap <=>
                 \E i \in 1..Len(cuboids), j \in 1..Len(cuboids) :
                    /\ i < j
                    /\ name \in {cuboids[i].name, cuboids[j].name}
                    /\ apply_separating_axis_theorem(cuboids[i], cuboids[j]) # <<Zero, Zero>>
        /\ items_with_overlap \subseteq {cuboids[i].name : i \in 1..Len(cuboids)}
        /\ Len(cuboids) < 2 => items_with_overlap = {}

\* Three items of which only A and C overlap.
C1_Witness ==
    /\ pc = "scan_done"
    /\ Len(cuboids) = 3
    /\ items_with_overlap = {"A", "C"}

\* The candidate axes along which a footprint of length 0 or width 0 has no
\* extent: its first axis when the length is 0, its second when the width is.
CollapsedAxes(c) ==
    (IF c.length = Zero THEN {get_potential_separation_axes(c.deg_rotation)[1]} ELSE {})
    \cup
    (IF c.width = Zero THEN {get_potential_separation_axes(c.deg_rotation)[2]} ELSE {})

\* C17: for a cuboid of length 0 or width 0 the engine returns a result: on
\* the collapsed axis the cuboid projects to a single point, the overlap on
\* that axis is 0, and the vector returned against any other cuboid is zero.
C17_ZeroAreaFootprintNeverOverlaps ==
    pc = "sat_done" =>
        \A c \in {rec_cuboid1, rec_cuboid2} :
            (c.length = Zero \/ c.width = Zero) =>
                /\ mtv = <<Zero, Zero>>
                /\ \A axis \in CollapsedAxes(c) :
                       /\ get_min_max_projections(c.lower_base_vertices, axis)[1]
                             = get_min_max_projections(c.lower_base_vertices, axis)[2]
                       /\ ProjectionOverlap(rec_cuboid1, rec_cuboid2, axis) = Zero

\* A footprint of length 0 and width 2, turned by 45 degrees, lying across a
\* unit square at the same elevation: every axis but the collapsed one shows
\* a positive overlap.
C17_Witness ==
    /\ pc = "sat_done"
    /\ rec_cuboid2.length = Zero
    /\ rec_cuboid2.width = Num(2)
    /\ rec_cuboid2.deg_rotation = 45
    /\ rec_cuboid1.length = Num(1)
    /\ rec_cuboid1.width = Num(1)
    /\ rec_cuboid1.deg_rotation = 0
    /\ VerticalCommonLength(rec_cuboid1, rec_cuboid2) > 0
    /\ \A axis \in CandidateAxes(rec_cuboid1, rec_cuboid2) \ CollapsedAxes(rec_cuboid2) :
          ProjectionOverlap(rec_cuboid1, rec_cuboid2, axis) # Zero
    /\ mtv = <<Zero, Zero>>

Rearranged(list, f) == [i \in 1..Len(list) |-> list[f[i]]]

\* C15: the scanner returns the same set of names for every rearrangement
\* of the same list, and the engine reports an overlap for (f1, f2) exactly
\* when it reports one for (f2, f1).
C15_ScanResultIsOrderIndependent ==
    /\ pc = "scan_done" =>
          \A f \in Permutations(1..Len(cuboids)) :
              check_overlaps_between_cuboids(Rearranged(cuboids, f)) = items_with_overlap
    /\ pc = "sat_done" =>
          (mtv_is_zero(apply_separating_axis_theorem(rec_cuboid2, rec_cuboid1))
              <=> mtv_is_zero(mtv))

\* Three items of which the last two overlap and the first is clear of both.
C15_Witness ==
    /\ pc = "scan_done"
    /\ Len(cuboids) = 3
    /\ items_with_overlap = {"B", "C"}
    /\ mtv_is_zero(apply_separating_axis_theorem(cuboids[1], cuboids[3]))

\* C8: the engine and the scanner only read their inputs: the cuboids and
\* the list are the same after the call as before.
C8_CoreCallsLeaveInputsUnchanged ==
    [][/\ pc = "sat" => (rec_cuboid1' = rec_cuboid1 /\ rec_cuboid2' = rec_cuboid2)
       /\ pc = "scan" => cuboids' = cuboids]_vars

C8_Witness ==
    \/ pc = "sat_done" /\ mtv # <<Zero, Zero>> /\ rec_cuboid1.deg_rotation = 45
    \/ pc = "scan_done" /\ Len(cuboids) = MaxItems /\ items_with_overlap # {}

\* Twice a number.
Double(q) == Add(q, q)

\* C18: calculate_vertices_of_axis_aligned_rectangle returns exactly four
\* vertices, in the order top-left, top-right, bottom-right, bottom-left:
\* centre + (-w/2, +h/2), (+w/2, +h/2), (+w/2, -h/2), (-w/2, -h/2).
C18_AxisAlignedVerticesInOrder ==
    pc = "aligned_done" =>
        LET cx2 == Double(rect_center[1])
            cy2 == Double(rect_center[2])
            twice == [i \in 1..Len(vertices) |->
                         <<Double(vertices[i][1]), Double(vertices[i][2])>>]
        IN  /\ Len(vertices) = 4
            /\ twice[1] = <<Sub(cx2, rect_width), Add(cy2, rect_height)>>
            /\ twice[2] = <<Add(cx2, rect_width), Add(cy2, rect_height)>>
            /\ twice[3] = <<Add(cx2, rect_width), Sub(cy2, rect_height)>>
            /\ twice[4] = <<Sub(cx2, rect_width), Sub(cy2, rect_height)>>

\* A 2 x 2 rectangle centred at (1, -2): vertices (0, -1), (2, -1), (2, -3),
\* (0, -3).
C18_Witness ==
    /\ pc = "aligned_done"
    /\ rect_center = P2(1, 0 - 2)
    /\ rect_width = Num(2)
    /\ rect_height = Num(2)
    /\ vertices = <<P2(0, 0 - 1), P2(2, 0 - 1), P2(2, 0 - 3), P2(0, 0 - 3)>>

\* C19: with angle 0, calculate_vertices_of_rotated_rectangle returns the
\* four vertices of calculate_vertices_of_axis_aligned_rectangle, in the
\* same order, for every centre, width and height.
C19_RotationZeroIsAxisAligned ==
    (pc = "rotated_done" /\ rect_angle = 0) =>
        vertices = calculate_vertices_of_axis_aligned_rectangle(rect_center, rect_width,
                                                               rect_height)

\* A 3 x 2 rectangle centred at (-1, 2), not rotated: its top-left vertex is
\* (-5/2, 3) and its bottom-right one (1/2, 1).
C19_Witness ==
    /\ pc = "rotated_done"
    /\ rect_angle = 0
    /\ rect_center = P2(0 - 1, 2)
    /\ rect_width = Num(3)
    /\ rect_height = Num(2)
    /\ vertices[1] = <<Half(Num(0 - 5)), Num(3)>>
    /\ vertices[3] = <<Half(Num(1)), Num(1)>>

C14_RotationLeavesItsArgumentsUnchanged ==
    [][pc = "rotate" =>
          /\ points' = points
          /\ center_of_rotation' = center_of_rotation
          /\ default_center_of_rotation' = default_center_of_rotation]_vars

\* ------------------------------------------------------------------------
\* Properties of the editor (checked under Spec)
\* ------------------------------------------------------------------------
\* C7: in every reachable state of the editor the stored vertices of every
\* item of the arena are the rotated rectangle of the item's current centre
\* (x, z), length, width and rotation.
C7_VerticesFollowCurrentState ==
    pc = "editor" =>
        \A i \in 1..Len(physical_items) :
            LET c == heap[physical_items[i]]
            IN  c.lower_base_vertices =
                    calculate_vertices_of_rotated_rectangle(
                        <<c.center[1], c.center[2]>>, c.length, c.width, c.deg_rotation)

\* The first item of the configuration has been clicked, dragged along x and
\* turned by 45 degrees.
C7_Witness ==
    /\ last_op = "move"
    /\ \E i \in 1..Len(physical_items) :
          LET c == heap[physical_items[i]]
          IN  /\ c.name = ItemName("Wall", FALSE, 0)
              /\ c.center[1] = Num(1)
              /\ c.deg_rotation = 45

\* The list s without the element at position i (1-based).
WithoutPosition(s, i) == SubSeq(s, 1, i - 1) \o SubSeq(s, i + 1, Len(s))

\* C9: when the remove callback runs, exactly the currently selected item is
\* removed: the list afterwards is the previous list without that one item,
\* however the item became selected (by a click or by having been spawned).
C9_RemoveDeletesExactlyTheSelectedItem ==
    [][(/\ last_op' = "remove"
        /\ steps' = steps + 1
        /\ curr_item_to_move_ix # <<>>
        /\ py_index_ok(physical_items, curr_item_to_move_ix[1]))
          => physical_items' =
                WithoutPosition(physical_items,
                                py_position(physical_items, curr_item_to_move_ix[1]))]_vars

\* The scalar product of two vectors of the plane.
DotProduct(u, v) == Add(Mul(u[1], v[1]), Mul(u[2], v[2]))

\* C21: get_potential_separation_axes(theta) returns two unit vectors: the
\* first is (cos(-theta), sin(-theta)), the second is the first turned by 90
\* degrees anticlockwise, and the two are orthogonal; at 0 they are (1, 0)
\* and (0, 1), at 45 (r, -r) and (r, r), at -45 (r, r) and (-r, r), with r
\* the square root of 1/2.
C21_SeparationAxesAreOrthonormal ==
    pc = "axes_done" =>
        /\ Len(axes) = 2
        /\ SquaredLength(axes[1]) = Num(1)
        /\ SquaredLength(axes[2]) = Num(1)
        /\ axes[1] = <<cos_deg(0 - rect_angle), sin_deg(0 - rect_angle)>>
        /\ axes[2] = <<Neg(axes[1][2]), axes[1][1]>>
        /\ DotProduct(axes[1], axes[2]) = Zero
        /\ (rect_angle = 0 => axes = <<(<<Num(1), Zero>>), (<<Zero, Num(1)>>)>>)
        /\ (rect_angle = 45 =>
               axes = <<(<<SqrtHalf, Neg(SqrtHalf)>>), (<<SqrtHalf, SqrtHalf>>)>>)
        /\ (rect_angle = 0 - 45 =>
               axes = <<(<<SqrtHalf, SqrtHalf>>), (<<Neg(SqrtHalf), SqrtHalf>>)>>)

\* The axes of a rectangle turned by -45 degrees have been computed.
C21_Witness ==
    /\ pc = "axes_done"
    /\ rect_angle = 0 - 45
    /\ axes[2] = <<Neg(SqrtHalf), SqrtHalf>>

\* The offsets 0, 1/4, 3/4 and 1 of a side of the given length.
QuarterOffsets(side) == {Zero, Mul(SMALL_RATIO, side), Mul(LARGE_RATIO, side), side}

\* The vertices returned are n, start at the top-left corner of the base
\* rectangle and end at its bottom-left corner, lie inside or on the
\* rectangle, and each is offset from the top-left corner by 0, 1/4, 3/4 or
\* the whole of the width and of the height.
BlockVerticesFitBaseRectangle(n) ==
    LET left == Sub(rect_center[1], Half(rect_width))
        right == Add(rect_center[1], Half(rect_width))
        bottom == Sub(rect_center[2], Half(rect_height))
        top == Add(rect_center[2], Half(rect_height))
    IN  /\ Len(vertices) = n
        /\ vertices[1] = <<left, top>>
        /\ vertices[n] = <<left, bottom>>
        /\ \A i \in 1..n :
              /\ Le(left, vertices[i][1]) /\ Le(vertices[i][1], right)
              /\ Le(bottom, vertices[i][2]) /\ Le(vertices[i][2], top)
              /\ Sub(vertices[i][1], left) \in QuarterOffsets(rect_width)
              /\ Sub(top, vertices[i][2]) \in QuarterOffsets(rect_height)

\* C22: the axis-aligned L-, U- and J-block vertex functions return 6, 8
\* and 6 vertices; the list starts at the base rectangle's top-left corner
\* and ends at its bottom-left corner; every vertex lies inside or on the
\* base rectangle, and every notch vertex is offset from a corner of the
\* rectangle by 1/4 or 3/4 of the width or of the height.
C22_BlockVerticesFitBaseRectangle ==
    /\ pc = "l_block_done" => BlockVerticesFitBaseRectangle(6)
    /\ pc = "u_block_done" => BlockVerticesFitBaseRectangle(8)
    /\ pc = "j_block_done" => BlockVerticesFitBaseRectangle(6)

\* A 2 x 2 L-block centred at the origin: its notch runs from (1, 1/2)
\* over (-1/2, 1/2) to (-1/2, -1).
C22_Witness ==
    /\ pc = "l_block_done"
    /\ rect_center = P2(0, 0)
    /\ rect_width = Num(2)
    /\ rect_height = Num(2)
    /\ vertices[3] = <<Num(1), Half(Num(1))>>
    /\ vertices[4] = <<Half(Num(0 - 1)), Half(Num(1))>>
    /\ vertices[5] = <<Half(Num(0 - 1)), Num(0 - 1)>>

\* The item the index refers to, when it refers to one.
IndexRefersToAnItem ==
    /\ curr_item_to_move_ix # <<>>
    /\ py_index_ok(physical_items, curr_item_to_move_ix[1])

SelectedItem == heap[physical_items[py_position(physical_items, curr_item_to_move_ix[1])]]

\* C23: after any sequence of click, move, spawn, resize and remove
\* operations on a non-empty arena, curr_item_to_move_ix refers to an
\* existing item, so the next move or resize does not index outside the list.
C23_CurrentItemIndexRefersToAnItem ==
    (/\ last_op \in {"click", "move", "spawn", "resize", "remove"}
     /\ physical_items # <<>>)
        => IndexRefersToAnItem

\* C24: whenever the selected item has changed (by a click, a spawn, or a
\* remove after which the index refers to another item), the four slider
\* values equal the centre x, y, z and the rotation of the item now selected,
\* so that the next move writes back three unchanged values.
C24_SlidersShowTheSelectedItem ==
    (/\ last_op \in {"click", "spawn", "remove"}
     /\ IndexRefersToAnItem)
        => sliders = [x |-> SelectedItem.center[1], y |-> SelectedItem.center[3],
                      z |-> SelectedItem.center[2], rot |-> SelectedItem.deg_rotation]

\* C25: after each completed move, spawn, resize or remove the arena's
\* overlapping_items is what the scanner returns for the item list as it
\* stands.
C25_OverlappingItemsAreUpToDate ==
    last_op \in {"move", "spawn", "resize", "remove"} =>
        overlapping_items = check_overlaps_between_cuboids(CuboidsOf(heap, physical_items))

\* A wall has been spawned onto the first wall of the configuration, which
\* marked both, and then removed again: nothing overlaps any more.
C25_Witness ==
    /\ last_op = "remove"
    /\ steps = 2
    /\ Len(physical_items) = 1
    /\ spawn_clicks = 1
    /\ overlapping_items = {}

\* C26: Dumper._get_complete_config_str returns the complete configuration:
\* the heading followed by one '<ix>: !Arena' section for every arena of
\* self.arenas, in index order; k arenas give k sections.
C26_DumpWritesEveryArena ==
    pc = "dumped" =>
        /\ config_str.returned = "str"
        /\ config_str.heading = get_heading_str(0)
        /\ Len(config_str.sections) = Len(arenas)
        /\ \A n \in 1..Len(config_str.sections) :
              /\ config_str.sections[n].tag = "!Arena"
              /\ config_str.sections[n].ix = n - 1

\* What a YAML reader gets from a written !Vector3 or !RGB.
ReadVector3(rep) == [x |-> rep.x.number, y |-> rep.y.number, z |-> rep.z.number]

ReadRGB(rep) == [r |-> rep.r.number, g |-> rep.g.number, b |-> rep.b.number]

\* The entries of one section (positions, rotations, sizes or colors) of
\* all the item types of the given name in the YAML data, in file order.
YamlEntriesOfType(raw_items, name, section) ==
    py_concat([i \in 1..Len(raw_items) |->
                  IF raw_items[i].name = name THEN raw_items[i][section] ELSE <<>>])

\* C28: loading then dumping preserves the coordinates: every item of the
\* arena is written exactly once, under its own type; its position and size
\* have the x, y and z of the YAML data, its rotation and colour are the
\* same, and the positions, rotations, sizes and colors lists of a type
\* have equal length and are index-aligned.
C28_LoadThenDumpPreservesTheItems ==
    pc = "dumped" =>
        \A n \in 1..Len(config_str.sections) :
            LET written == config_str.sections[n].items
                raw_items == raw_arenas_dict[config_str.sections[n].ix + 1].items
            IN  /\ {written[t].name : t \in 1..Len(written)}
                       = {raw_items[i].name : i \in 1..Len(raw_items)}
                /\ \A t, u \in 1..Len(written) : written[t].name = written[u].name => t = u
                /\ \A t \in 1..Len(written) :
                      /\ Len(written[t].positions) = Len(written[t].rotations)
                      /\ Len(written[t].positions) = Len(written[t].sizes)
                      /\ Len(written[t].positions) = Len(written[t].colors)
                      /\ [k \in 1..Len(written[t].positions) |->
                             ReadVector3(written[t].positions[k])]
                            = YamlEntriesOfType(raw_items, written[t].name, "positions")
                      /\ [k \in 1..Len(written[t].rotations) |-> written[t].rotations[k].number]
                            = YamlEntriesOfType(raw_items, written[t].name, "rotations")
                      /\ [k \in 1..Len(written[t].sizes) |-> ReadVector3(written[t].sizes[k])]
                            = YamlEntriesOfType(raw_items, written[t].name, "sizes")
                      /\ [k \in 1..Len(written[t].colors) |-> ReadRGB(written[t].colors[k])]
                            = YamlEntriesOfType(raw_items, written[t].name, "colors")

\* An arena whose file lists two Wall types of one wall each has been
\* loaded and dumped: the walls are written under one Wall type, the second
\* at x = 2, y = 2, z = -2 with size 2 x 1 x 1 and rotation 90.
C28_Witness ==
    /\ pc = "dumped"
    /\ Len(raw_arenas_dict) = 1
    /\ Len(raw_arenas_dict[1].items) = 2
    /\ raw_arenas_dict[1].items[1].name = "Wall"
    /\ raw_arenas_dict[1].items[2].name = "Wall"
    /\ Len(config_str.sections[1].items) = 1
    /\ Len(config_str.sections[1].items[1].positions) = 2
    /\ ReadVector3(config_str.sections[1].items[1].positions[2]) = YamlVector3(2, 2, 0 - 2)
    /\ ReadVector3(config_str.sections[1].items[1].sizes[2]) = YamlVector3(2, 1, 1)
    /\ config_str.sections[1].items[1].rotations[2].number = 90

\* The length two closed intervals [lo1, hi1] and [lo2, hi2] have in common
\* is positive.
IntervalsShareLength(lo1, hi1, lo2, hi2) ==
    /\ Lt(lo1, hi2) /\ Lt(lo2, hi1)
    /\ Lt(lo1, hi1) /\ Lt(lo2, hi2)

\* The engine reports an overlap exactly when the axis-aligned check does,
\* and that is exactly when the x, z and vertical intervals all share a
\* positive length.
SatAgreesWithBoundsCheck ==
    LET c1 == rec_cuboid1
        c2 == rec_cuboid2
    IN  /\ (~mtv_is_zero(mtv)) <=> overlap_from_bounds[1]
        /\ overlap_from_bounds[1] <=>
              (/\ IntervalsShareLength(
                      Sub(c1.center[1], Half(c1.length)), Add(c1.center[1], Half(c1.length)),
                      Sub(c2.center[1], Half(c2.length)), Add(c2.center[1], Half(c2.length)))
               /\ IntervalsShareLength(
                      Sub(c1.center[2], Half(c1.width)), Add(c1.center[2], Half(c1.width)),
                      Sub(c2.center[2], Half(c2.width)), Add(c2.center[2], Half(c2.width)))
               /\ IntervalsShareLength(
                      c1.center[3], Add(c1.center[3], c1.height),
                      c2.center[3], Add(c2.center[3], c2.height)))

NonNegativeSizes(c) == Sign(c.length) >= 0 /\ Sign(c.width) >= 0 /\ Sign(c.height) >= 0

BoundingRectangle(pts) ==
    <<py_min({pts[i][1] : i \in DOMAIN pts}), py_max({pts[i][1] : i \in DOMAIN pts}),
      py_min({pts[i][2] : i \in DOMAIN pts}), py_max({pts[i][2] : i \in DOMAIN pts})>>

\* C29: for an LBlock, UBlock or JBlock the outline the visualiser draws
\* has the same bounding rectangle as the footprint used for overlap
\* detection: turned back by the item's rotation about its centre (x, z),
\* it spans the length along x and the width along z.
C29_BlockOutlineSpansTheFootprint ==
    (pc = "path_done" /\ rec_cuboid1.name.type \in NON_RECTANGULAR_ITEMS) =>
        LET c == rec_cuboid1
            centre == <<c.center[1], c.center[2]>>
        IN  /\ BoundingRectangle(
                   calculate_clockwise_rotated_2d_points(path, 0 - c.deg_rotation, centre))
                 = <<Sub(centre[1], Half(c.length)), Add(centre[1], Half(c.length)),
                     Sub(centre[2], Half(c.width)), Add(centre[2], Half(c.width))>>
            /\ BoundingRectangle(
                   calculate_clockwise_rotated_2d_points(path, 0 - c.deg_rotation, centre))
                 = BoundingRectangle(
                       calculate_clockwise_rotated_2d_points(
                           c.lower_base_vertices, 0 - c.deg_rotation, centre))

\* C30: RectangularCuboid.resize changes only the dimensions passed as
\* non-None, computes lower_base_vertices again from the centre, the new
\* length and width and the rotation, and leaves the centre, the rotation,
\* the name and the colour unchanged.
C30_ResizeChangesOnlyTheGivenDimensions ==
    [][(pc = "cuboid" /\ pc' = "resized") =>
          /\ rec_cuboid1'.length =
                IF resize_args'[1] = <<>> THEN rec_cuboid1.length ELSE resize_args'[1][1]
          /\ rec_cuboid1'.width =
                IF resize_args'[2] = <<>> THEN rec_cuboid1.width ELSE resize_args'[2][1]
          /\ rec_cuboid1'.height =
                IF resize_args'[3] = <<>> THEN rec_cuboid1.height ELSE resize_args'[3][1]
          /\ rec_cuboid1'.lower_base_vertices =
                calculate_vertices_of_rotated_rectangle(
                    <<rec_cuboid1.center[1], rec_cuboid1.center[2]>>,
                    rec_cuboid1'.length, rec_cuboid1'.width, rec_cuboid1.deg_rotation)
          /\ rec_cuboid1'.center = rec_cuboid1.center
          /\ rec_cuboid1'.deg_rotation = rec_cuboid1.deg_rotation
          /\ rec_cuboid1'.name = rec_cuboid1.name
          /\ rec_cuboid1'.colour = rec_cuboid1.colour]_vars

\* An unrotated wall of length 2, width 2 and height 2 centred at (1, 1) has
\* been given the width 1 only: its vertices run from (0, 3/2) to (2, 1/2).
C30_Witness ==
    /\ pc = "resized"
    /\ resize_args = <<(<<>>), (<<Num(1)>>), (<<>>)>>
    /\ rec_cuboid1.name.type = "Wall"
    /\ rec_cuboid1.deg_rotation = 0
    /\ rec_cuboid1.center = N3(1, 1, 0)
    /\ rec_cuboid1.length = Num(2)
    /\ rec_cuboid1.width = Num(1)
    /\ rec_cuboid1.height = Num(2)
    /\ rec_cuboid1.lower_base_vertices[1] = <<Zero, Half(Num(3))>>
    /\ rec_cuboid1.lower_base_vertices[3] = <<Num(2), Half(Num(1))>>

====
